---------------------------- MODULE Spec2Model ----------------------------
(***************************************************************************)
(* Model of the savr-scan receipt pipeline (DustBowling/savr-scan).        *)
(*                                                                         *)
(* Text is modelled as JavaScript strings are used by the code: a string   *)
(* is a sequence of one-character strings, so that trim, toUpperCase,      *)
(* split and the regular expressions of the parser are computed character  *)
(* by character.  Money is kept in cents and confidences in hundredths.    *)
(***************************************************************************)
EXTENDS Integers, Sequences, FiniteSets, TLC

VARIABLES
    localStorage,   \* the browser storage shared by every tab of the origin
    now,            \* logical clock: the value new Date() yields next
    saved,          \* history: entries written by saveLearning since the last reset
    pc,             \* where the caller is: "idle" or the call that just returned
    arg,            \* arguments of the call that just returned
    ret,            \* its return value
    tabs,           \* per-tab position and locals of a saveLearning in progress
    STORE_ADDRESS_DATABASE  \* the store locations storeAddressLookup.ts holds in memory

vars == <<localStorage, now, saved, pc, arg, ret, tabs, STORE_ADDRESS_DATABASE>>

(***************************************************************************)
(* Bounds of the model.                                                    *)
(***************************************************************************)
MaxSaves == 2        \* saveLearning calls explored from the empty store
MaxItems == 2        \* items handed to applyLearnedEnhancements / getItemsToHide
PreloadSlack == 1    \* SpecCap starts this many records below the log cap
CapSaves == 3        \* saveLearning calls explored from the preloaded store
MaxLines == 3        \* lines of a receipt text
MaxAIItems == 2      \* items of a collaborator response

(***************************************************************************)
(* Strings.                                                                *)
(***************************************************************************)
LowerAZ == <<"a","b","c","d","e","f","g","h","i","j","k","l","m",
             "n","o","p","q","r","s","t","u","v","w","x","y","z">>
UpperAZ == <<"A","B","C","D","E","F","G","H","I","J","K","L","M",
             "N","O","P","Q","R","S","T","U","V","W","X","Y","Z">>

IndexOf(c, seq) ==
    IF \E i \in DOMAIN seq : seq[i] = c
    THEN CHOOSE i \in DOMAIN seq : seq[i] = c
    ELSE 0

\* String.prototype.toUpperCase / toLowerCase on the characters the model uses
toUpperCase(s) ==
    [i \in DOMAIN s |->
        LET k == IndexOf(s[i], LowerAZ) IN IF k = 0 THEN s[i] ELSE UpperAZ[k]]

toLowerCase(s) ==
    [i \in DOMAIN s |->
        LET k == IndexOf(s[i], UpperAZ) IN IF k = 0 THEN s[i] ELSE LowerAZ[k]]

\* the string literals the model's inputs are built from
Str == [
    HIDDEN  |-> <<"_","_","H","I","D","D","E","N","_","_">>,
    SAFEWAY |-> <<"S","A","F","E","W","A","Y">>,
    Safeway |-> <<"S","a","f","e","w","a","y">>,
    TARGET  |-> <<"T","A","R","G","E","T">>,
    BUTTER  |-> <<"L","N","D"," ","O"," ","L","K","S"," ","B","U","T","T","E","R">>,
    MILK    |-> <<"M","I","L","K">>,
    Butter  |-> <<"B","u","t","t","e","r">>,
    Milk    |-> <<"M","i","l","k">>,
    empty   |-> <<>> ]

\* a JavaScript value that is either undefined or a string
Undefined == [def |-> FALSE, s |-> <<>>]
Some(s) == [def |-> TRUE, s |-> s]

\* JavaScript truthiness of an optional string: undefined and "" are falsy
Truthy(v) == v.def /\ Len(v.s) > 0

(***************************************************************************)
(* ReceiptLearningSystem: the learning log and the PatternTable, both kept *)
(* in localStorage as JSON.  The values stored are strings, arrays and     *)
(* plain objects of strings, which JSON.stringify / JSON.parse return      *)
(* unchanged; an item is absent (getItem returns null) or holds a value.   *)
(* Storage writes are taken to succeed (no quota error).                   *)
(***************************************************************************)
LEARNING_CAP == 500

Absent == [present |-> FALSE, val |-> <<>>]

EmptyStorage == [receipt_learning_data |-> Absent, learned_patterns |-> Absent]

\* getLearningData: stored ? JSON.parse(stored) : []
getLearningData(ls) ==
    IF ls.receipt_learning_data.present THEN ls.receipt_learning_data.val ELSE <<>>

\* getAllPatterns: stored ? JSON.parse(stored) : {}
\* an object is a function from the keys it has to their values; {} is <<>>
getAllPatterns(ls) ==
    IF ls.learned_patterns.present THEN ls.learned_patterns.val ELSE <<>>

\* a mutant of getLearnedPatterns: the store name is the key as it is written
getLearnedPatterns_exactKey(ls, storeName) ==
    LET allPatterns == getAllPatterns(ls)
    IN  IF storeName \in DOMAIN allPatterns THEN allPatterns[storeName] ELSE <<>>

\* obj[key] || {}
getLearnedPatterns(ls, storeName) ==
    LET allPatterns == getAllPatterns(ls)
        key == toUpperCase(storeName)
    IN  IF key \in DOMAIN allPatterns THEN allPatterns[key] ELSE <<>>

\* patterns[name]: the value under the key, or undefined
Lookup(patterns, name) ==
    IF name \in DOMAIN patterns THEN Some(patterns[name]) ELSE Undefined

\* obj[key] = value on a copy of obj
Put(obj, key, value) ==
    [k \in DOMAIN obj \cup {key} |-> IF k = key THEN value ELSE obj[k]]

\* the PatternTable that replaying a log from an empty table gives
TableOf(log) ==
    [k \in { toUpperCase(log[i].storeName) : i \in DOMAIN log } |->
        [n \in { log[i].originalName :
                    i \in { j \in DOMAIN log : toUpperCase(log[j].storeName) = k } } |->
            LET last == CHOOSE i \in DOMAIN log :
                    /\ toUpperCase(log[i].storeName) = k
                    /\ log[i].originalName = n
                    /\ \A j \in DOMAIN log :
                          (toUpperCase(log[j].storeName) = k /\ log[j].originalName = n)
                              => j <= i
            IN  log[last].newEnhancedName]]

\* a mutant of updatePatterns: the table is derived from the (capped) log
updatePatterns_fromLog(ls, entry) ==
    [ls EXCEPT !.learned_patterns =
        [present |-> TRUE, val |-> TableOf(getLearningData(ls))]]

\* a mutant of updatePatterns: an entry already present is kept
updatePatterns_keepFirst(ls, entry) ==
    LET patterns == getAllPatterns(ls)
        storeKey == toUpperCase(entry.storeName)
        forStore == IF storeKey \in DOMAIN patterns THEN patterns[storeKey] ELSE <<>>
        updated == IF entry.originalName \in DOMAIN forStore
                   THEN forStore
                   ELSE Put(forStore, entry.originalName, entry.newEnhancedName)
    IN  [ls EXCEPT !.learned_patterns =
            [present |-> TRUE, val |-> Put(patterns, storeKey, updated)]]

updatePatterns(ls, entry) ==
    LET patterns == getAllPatterns(ls)
        storeKey == toUpperCase(entry.storeName)
        forStore == IF storeKey \in DOMAIN patterns THEN patterns[storeKey] ELSE <<>>
        updated == Put(forStore, entry.originalName, entry.newEnhancedName)
    IN  [ls EXCEPT !.learned_patterns =
            [present |-> TRUE, val |-> Put(patterns, storeKey, updated)]]

\* a mutant of pushAndCap: the newest records are dropped instead of the oldest
pushAndCap_dropNewest(existing, entry) ==
    LET pushed == Append(existing, entry)
    IN  IF Len(pushed) > LEARNING_CAP
        THEN SubSeq(pushed, 1, LEARNING_CAP)
        ELSE pushed

\* existing.push(entry); if (existing.length > 500) existing.splice(0, length - 500)
pushAndCap(existing, entry) ==
    LET pushed == Append(existing, entry)
    IN  IF Len(pushed) > LEARNING_CAP
        THEN SubSeq(pushed, Len(pushed) - LEARNING_CAP + 1, Len(pushed))
        ELSE pushed

\* the entry saveLearning builds: { ...data, timestamp }
MakeEntry(data, ts) ==
    [timestamp       |-> ts,
     storeName       |-> data.storeName,
     originalName    |-> data.originalName,
     oldEnhancedName |-> data.oldEnhancedName,
     newEnhancedName |-> data.newEnhancedName,
     correctionType  |-> data.correctionType]

\* saveLearning as one synchronous call: the storage after it
saveLearning(ls, data, ts) ==
    LET entry == MakeEntry(data, ts)
        existing == pushAndCap(getLearningData(ls), entry)
        ls1 == [ls EXCEPT !.receipt_learning_data = [present |-> TRUE, val |-> existing]]
    IN  updatePatterns(ls1, entry)

\* clearLearningData: removeItem of both keys
clearLearningData(ls) ==
    [ls EXCEPT !.receipt_learning_data = Absent, !.learned_patterns = Absent]

\* a mutant of applyLearnedEnhancements: the hide sentinel is handled like a name
applyLearnedEnhancements_noHide(ls, items, storeName) ==
    LET patterns == getLearnedPatterns(ls, storeName)
    IN  [i \in DOMAIN items |->
            LET item == items[i]
                learned == Lookup(patterns, item.name)
            IN  IF Truthy(learned)
                THEN [name |-> item.name, enhancedName |-> learned.s,
                      wasLearned |-> TRUE, shouldHide |-> FALSE]
                ELSE [name |-> item.name,
                      enhancedName |-> IF Truthy(item.enhancedName)
                                       THEN item.enhancedName.s ELSE item.name,
                      wasLearned |-> FALSE, shouldHide |-> FALSE]]

\* applyLearnedEnhancements; shouldHide = FALSE stands for the field being absent
applyLearnedEnhancements(ls, items, storeName) ==
    LET patterns == getLearnedPatterns(ls, storeName)
    IN  [i \in DOMAIN items |->
            LET item == items[i]
                learned == Lookup(patterns, item.name)
            IN  IF learned.def /\ learned.s = Str.HIDDEN
                THEN [name |-> item.name,
                      enhancedName |-> IF Truthy(item.enhancedName)
                                       THEN item.enhancedName.s ELSE item.name,
                      wasLearned |-> TRUE, shouldHide |-> TRUE]
                ELSE IF Truthy(learned)
                THEN [name |-> item.name, enhancedName |-> learned.s,
                      wasLearned |-> TRUE, shouldHide |-> FALSE]
                ELSE [name |-> item.name,
                      enhancedName |-> IF Truthy(item.enhancedName)
                                       THEN item.enhancedName.s ELSE item.name,
                      wasLearned |-> FALSE, shouldHide |-> FALSE]]

\* getItemsToHide: the indices of the items for which the name or the
\* enhancedName, if truthy, is a key whose value is the hide sentinel.  The
\* indices are those of the item list, which the model counts from 1.
getItemsToHide(ls, items, storeName) ==
    LET patterns == getLearnedPatterns(ls, storeName)
        Hidden(name) == Lookup(patterns, name) = Some(Str.HIDDEN)
    IN  { index \in DOMAIN items :
            \/ Len(items[index].name) > 0 /\ Hidden(items[index].name)
            \/ Truthy(items[index].enhancedName) /\ Hidden(items[index].enhancedName.s) }

\* the PatternTable value for the item named `name` under store `storeName`
EntryFor(storeName, name) ==
    Lookup(getLearnedPatterns(localStorage, storeName), name)

(***************************************************************************)
(* Inputs of the learning store.                                           *)
(***************************************************************************)
Stores == {Str.SAFEWAY, Str.Safeway, Str.TARGET}
Names == {Str.BUTTER, Str.MILK}

\* the corrections a caller may save: (correctionType, newEnhancedName)
Corrections == {
    <<"user_edit", Str.Butter>>,
    <<"item_hidden", Str.HIDDEN>> }

Correction(storeName, originalName, correctionType, newEnhancedName) ==
    [storeName |-> storeName, originalName |-> originalName,
     oldEnhancedName |-> originalName,
     newEnhancedName |-> newEnhancedName, correctionType |-> correctionType]

\* every store, text and correction, one correction to the empty name, one
\* of the kind 'item_hidden' that carries a name, and one that hides the
\* item whose text is empty
SaveInputs ==
    { Correction(s, n, c[1], c[2]) : s \in Stores, n \in Names, c \in Corrections }
    \cup { Correction(Str.SAFEWAY, Str.MILK, "user_edit", Str.empty),
           Correction(Str.TARGET, Str.MILK, "item_hidden", Str.Milk),
           Correction(Str.TARGET, Str.empty, "item_hidden", Str.HIDDEN) }

\* items as the callers of applyLearnedEnhancements pass them, and the store
\* names they pass: a case variant of a store corrections are saved under,
\* and another store
ApplyItems == {
    [name |-> Str.BUTTER, enhancedName |-> Some(Str.Milk)],
    [name |-> Str.MILK, enhancedName |-> Undefined] }

ApplyStores == {Str.Safeway, Str.TARGET}

\* the items getItemsToHide is called with: those of ApplyItems, an item
\* whose enhancedName is an original text, and an item whose name is empty
HideItems ==
    ApplyItems \cup {
        [name |-> Str.BUTTER, enhancedName |-> Some(Str.MILK)],
        [name |-> Str.empty, enhancedName |-> Undefined] }

SeqsUpTo(S, n) == UNION { [1..k -> S] : k \in 0..n }

ItemLists == SeqsUpTo(ApplyItems, MaxItems)

NoCall == [op |-> "none"]

\* STORE_ADDRESS_DATABASE as storeAddressLookup.ts declares it: the chains in
\* the order Object.entries yields them, each with its locations; a field a
\* location does not have is the empty string (both are falsy)
InitialLocations == <<
    [chain |-> <<"W","A","L","M","A","R","T">>, locations |-> <<
        [storeName |-> <<"W","A","L","M","A","R","T">>, address |-> <<"9","4","5","5"," ","M","I","S","S","I","S","S","A","U","G","A"," ","R","O","A","D">>,
         city |-> <<"B","R","A","M","P","T","O","N">>, state |-> <<"O","N">>,
         zip |-> <<"L","6","X"," ","0","Z","8">>, storeNumber |-> <<"1","0","7","9">>,
         phone |-> <<"9","0","5","-","4","5","1","-","6","3","0","7">>],
        [storeName |-> <<"W","A","L","M","A","R","T">>, address |-> <<"8","8","2"," ","S","."," ","S","T","A","T","E"," ","R","O","A","D"," ","1","3","6">>,
         city |-> <<"G","R","E","E","N","W","O","O","D">>, state |-> <<"I","N">>,
         zip |-> <<"4","6","1","4","3">>, storeNumber |-> <<"5","4","8","3">>,
         phone |-> <<>>] >>],
    [chain |-> Str.SAFEWAY, locations |-> <<
        [storeName |-> <<"S","A","F","E","W","A","Y">>, address |-> <<"1","5","5","4"," ","F","I","R","S","T"," ","S","T","R","E","E","T">>,
         city |-> <<"L","I","V","E","R","M","O","R","E">>, state |-> <<"C","A">>,
         zip |-> <<"9","4","5","5","0">>, storeNumber |-> <<"9","1","0">>,
         phone |-> <<>>] >>],
    [chain |-> Str.TARGET, locations |-> <<>>] >>

(***************************************************************************)
(* Actions of one tab: every call runs to completion (JavaScript is        *)
(* single-threaded and these methods never await).                         *)
(***************************************************************************)
Init ==
    /\ STORE_ADDRESS_DATABASE = InitialLocations
    /\ localStorage = EmptyStorage
    /\ now = 0
    /\ saved = <<>>
    /\ pc = "idle"
    /\ arg = NoCall
    /\ ret = NoCall
    /\ tabs = <<>>

SaveLearning(data) ==
    /\ pc = "idle"
    /\ localStorage' = saveLearning(localStorage, data, now)
    /\ saved' = Append(saved, MakeEntry(data, now))
    /\ now' = now + 1
    /\ UNCHANGED <<STORE_ADDRESS_DATABASE, pc, arg, ret, tabs>>

ClearLearningData ==
    /\ pc = "idle"
    /\ localStorage.receipt_learning_data.present
    /\ localStorage' = clearLearningData(localStorage)
    /\ saved' = <<>>
    /\ UNCHANGED <<STORE_ADDRESS_DATABASE, now, pc, arg, ret, tabs>>

ApplyLearned(items, storeName) ==
    /\ pc = "idle"
    /\ pc' = "applied"
    /\ arg' = [op |-> "applyLearnedEnhancements", items |-> items, storeName |-> storeName]
    /\ ret' = applyLearnedEnhancements(localStorage, items, storeName)
    /\ UNCHANGED <<STORE_ADDRESS_DATABASE, localStorage, now, saved, tabs>>

GetItemsToHide(items, storeName) ==
    /\ pc = "idle"
    /\ pc' = "hideListed"
    /\ arg' = [op |-> "getItemsToHide", items |-> items, storeName |-> storeName]
    /\ ret' = getItemsToHide(localStorage, items, storeName)
    /\ UNCHANGED <<STORE_ADDRESS_DATABASE, localStorage, now, saved, tabs>>

\* the caller takes the result and is ready for the next call
Return ==
    /\ pc # "idle"
    /\ pc' = "idle"
    /\ arg' = NoCall
    /\ ret' = NoCall
    /\ UNCHANGED <<STORE_ADDRESS_DATABASE, localStorage, now, saved, tabs>>

Next ==
    \/ \E data \in SaveInputs : now < MaxSaves /\ SaveLearning(data)
    \/ ClearLearningData
    \/ \E items \in ItemLists, s \in ApplyStores : ApplyLearned(items, s)
    \/ \E items \in SeqsUpTo(HideItems, MaxItems), s \in ApplyStores : GetItemsToHide(items, s)
    \/ Return

Spec == Init /\ [][Next]_vars

(***************************************************************************)
(* The same store after earlier sessions: the state left by a run of       *)
(* saveLearning calls that stops PreloadSlack records short of the cap.    *)
(* The first of them hides BUTTER at SAFEWAY, the others rename MILK at    *)
(* TARGET.                                                                 *)
(***************************************************************************)
PreloadCount == LEARNING_CAP - PreloadSlack

PreloadInput(i) ==
    IF i = 1
    THEN Correction(Str.SAFEWAY, Str.BUTTER, "item_hidden", Str.HIDDEN)
    ELSE Correction(Str.TARGET, Str.MILK, "user_edit", Str.Butter)

\* The storage after the saveLearning calls number 1..n (2 <= n <= LEARNING_CAP):
\* nothing has been evicted yet, and the calls 2..n all write the same
\* PatternTable entry, so the table is the one left by the first and the last.
PreloadedStorage(n) ==
    LET withLog ==
            [EmptyStorage EXCEPT !.receipt_learning_data =
                [present |-> TRUE,
                 val |-> [i \in 1..n |-> MakeEntry(PreloadInput(i), i - 1)]]]
    IN  updatePatterns(updatePatterns(withLog, MakeEntry(PreloadInput(1), 0)),
                       MakeEntry(PreloadInput(n), n - 1))

CapInputs ==
    { d \in SaveInputs : d.storeName \in {Str.Safeway, Str.TARGET} }

InitCap ==
    /\ STORE_ADDRESS_DATABASE = InitialLocations
    /\ localStorage = PreloadedStorage(PreloadCount)
    /\ now = PreloadCount
    /\ saved = [i \in 1..PreloadCount |-> MakeEntry(PreloadInput(i), i - 1)]
    /\ pc = "idle"
    /\ arg = NoCall
    /\ ret = NoCall
    /\ tabs = <<>>

NextCap ==
    \/ \E data \in CapInputs : now < PreloadCount + CapSaves /\ SaveLearning(data)
    \/ ClearLearningData

SpecCap == InitCap /\ [][NextCap]_vars


(***************************************************************************)
(* Two tabs of the same origin share localStorage.  Each tab runs          *)
(* saveLearning on its own thread; a getItem or setItem call is one step,  *)
(* and nothing in the code orders the steps of one tab against the steps   *)
(* of the other.                                                           *)
(***************************************************************************)
TabIds == {1, 2}

\* corrections for one store, under either spelling of its name; the two tabs
\* correct different texts
TabInputs == { d \in SaveInputs : toUpperCase(d.storeName) = Str.SAFEWAY }

TabStart(data) ==
    [pc |-> "getLog", data |-> data, entry |-> MakeEntry(data, 0), read |-> Absent]

InitTabs ==
    /\ STORE_ADDRESS_DATABASE = InitialLocations
    /\ localStorage = EmptyStorage
    /\ now = 0
    /\ saved = <<>>
    /\ pc = "idle"
    /\ arg = NoCall
    /\ ret = NoCall
    /\ tabs \in [TabIds -> { TabStart(d) : d \in TabInputs }]
    /\ tabs[1].data.originalName # tabs[2].data.originalName

\* const entry = { ...data, timestamp }; const existing = this.getLearningData()
TabGetLog(t) ==
    /\ tabs[t].pc = "getLog"
    /\ tabs' = [tabs EXCEPT ![t].pc = "setLog",
                            ![t].entry = MakeEntry(tabs[t].data, now),
                            ![t].read = localStorage.receipt_learning_data]
    /\ now' = now + 1
    /\ UNCHANGED <<STORE_ADDRESS_DATABASE, localStorage, saved, pc, arg, ret>>

\* existing.push(entry); splice; localStorage.setItem(LEARNING_KEY, ...)
TabSetLog(t) ==
    /\ tabs[t].pc = "setLog"
    /\ LET seen == [EmptyStorage EXCEPT !.receipt_learning_data = tabs[t].read]
       IN  localStorage' =
              [localStorage EXCEPT !.receipt_learning_data =
                  [present |-> TRUE,
                   val |-> pushAndCap(getLearningData(seen), tabs[t].entry)]]
    /\ tabs' = [tabs EXCEPT ![t].pc = "getPatterns", ![t].read = Absent]
    /\ UNCHANGED <<STORE_ADDRESS_DATABASE, now, saved, pc, arg, ret>>

\* updatePatterns: const patterns = this.getAllPatterns()
TabGetPatterns(t) ==
    /\ tabs[t].pc = "getPatterns"
    /\ tabs' = [tabs EXCEPT ![t].pc = "setPatterns",
                            ![t].read = localStorage.learned_patterns]
    /\ UNCHANGED <<STORE_ADDRESS_DATABASE, localStorage, now, saved, pc, arg, ret>>

\* updatePatterns: patterns[storeKey][originalName] = ...; localStorage.setItem
TabSetPatterns(t) ==
    /\ tabs[t].pc = "setPatterns"
    /\ LET seen == [EmptyStorage EXCEPT !.learned_patterns = tabs[t].read]
       IN  localStorage' =
              [localStorage EXCEPT !.learned_patterns =
                  updatePatterns(seen, tabs[t].entry).learned_patterns]
    /\ tabs' = [tabs EXCEPT ![t].pc = "done", ![t].read = Absent]
    /\ saved' = Append(saved, tabs[t].entry)
    /\ UNCHANGED <<STORE_ADDRESS_DATABASE, now, pc, arg, ret>>

NextTabs ==
    \E t \in TabIds :
        \/ TabGetLog(t)
        \/ TabSetLog(t)
        \/ TabGetPatterns(t)
        \/ TabSetPatterns(t)

SpecTabs == InitTabs /\ [][NextTabs]_vars

\* C6: when two saveLearning operations for the same store run concurrently
\* against the shared storage, no update is lost: after both complete, both
\* log records and both PatternTable entries are present.
C6_NoLostUpdate ==
    (\A t \in TabIds : tabs[t].pc = "done") =>
        \A t \in TabIds :
            /\ \E i \in DOMAIN getLearningData(localStorage) :
                  getLearningData(localStorage)[i] = tabs[t].entry
            /\ EntryFor(tabs[t].data.storeName, tabs[t].data.originalName).def

(***************************************************************************)
(* Claims about the learning store.                                        *)
(***************************************************************************)
\* C2: applyLearnedEnhancements(items, S) returns, for every item whose name has
\* the hide sentinel as its PatternTable entry under S, an element with
\* shouldHide and wasLearned set, whatever enhancedName the item carries; every
\* item with no entry comes back with wasLearned = false and no shouldHide; the
\* output has the length and the order of the input.
C2_ApplyHidesSentinel ==
    pc = "applied" =>
        /\ Len(ret) = Len(arg.items)
        /\ \A i \in DOMAIN arg.items :
            LET learned == EntryFor(arg.storeName, arg.items[i].name)
            IN  /\ ret[i].name = arg.items[i].name
                /\ (learned.def /\ learned.s = Str.HIDDEN)
                      => (ret[i].shouldHide /\ ret[i].wasLearned)
                /\ ~learned.def => (~ret[i].wasLearned /\ ~ret[i].shouldHide)

\* C2 witness: one call returned a hidden item that carried an enhancedName of
\* its own and an item that has no entry
C2_Witness ==
    /\ pc = "applied"
    /\ \E i, j \in DOMAIN ret :
        /\ ret[i].shouldHide /\ ret[i].wasLearned
        /\ arg.items[i].enhancedName.def
        /\ ~EntryFor(arg.storeName, arg.items[j].name).def
        /\ ~ret[j].wasLearned

\* index i holds the most recent saved correction for its store key and text
IsLatestFor(i) ==
    \A j \in DOMAIN saved :
        (/\ toUpperCase(saved[j].storeName) = toUpperCase(saved[i].storeName)
         /\ saved[j].originalName = saved[i].originalName) => j <= i

\* the PatternTable agrees with the most recent saved correction of every
\* (store, text)
TableHoldsLatest ==
    \A i \in DOMAIN saved :
        IsLatestFor(i) =>
            EntryFor(saved[i].storeName, saved[i].originalName)
                = Some(saved[i].newEnhancedName)

C4_LogIsRecentSuffix ==
    LET log == getLearningData(localStorage)
        n == Len(saved)
        kept == IF n > LEARNING_CAP THEN LEARNING_CAP ELSE n
    IN  /\ Len(log) <= LEARNING_CAP
        /\ log = SubSeq(saved, n - kept + 1, n)

\* C4 witness: more than 500 corrections were saved and the oldest are gone
C4_Witness ==
    /\ Len(saved) > LEARNING_CAP + 1
    /\ Len(getLearningData(localStorage)) = LEARNING_CAP

\* every PatternTable entry of this state is an entry of the next state
EntriesKept ==
    \A k \in DOMAIN getAllPatterns(localStorage) :
        \A n \in DOMAIN getAllPatterns(localStorage)[k] :
            /\ k \in DOMAIN getAllPatterns(localStorage')
            /\ n \in DOMAIN getAllPatterns(localStorage')[k]

\* the log and the PatternTable of every store are empty in the next state
EmptyAfter ==
    /\ getLearningData(localStorage') = <<>>
    /\ \A s \in Stores : getLearnedPatterns(localStorage', s) = <<>>

\* C5: an entry made by saveLearning stays present through every later
\* saveLearning, also once the log record that made it has been evicted; a
\* step that removes an entry is clearLearningData, which leaves the log and
\* every store's table empty.
C5_EntriesOutliveLog ==
    [][ /\ ClearLearningData => EmptyAfter
        /\ ~ClearLearningData => EntriesKept ]_vars

\* C5 witness: the log is full, the record that hid BUTTER at SAFEWAY has been
\* evicted from it, and the entry is still in the table
C5_Witness ==
    LET log == getLearningData(localStorage)
    IN  /\ Len(log) = LEARNING_CAP
        /\ \A i \in DOMAIN log :
              ~(toUpperCase(log[i].storeName) = Str.SAFEWAY
                  /\ log[i].originalName = Str.BUTTER)
        /\ EntryFor(Str.SAFEWAY, Str.BUTTER) = Some(Str.HIDDEN)


(***************************************************************************)
(* Text: the string operations and regular expressions of the parser,      *)
(* computed on sequences of characters.                                    *)
(***************************************************************************)
Digits == <<"0","1","2","3","4","5","6","7","8","9">>

IsLetter(c) == IndexOf(c, LowerAZ) # 0 \/ IndexOf(c, UpperAZ) # 0

\* the character classes of the regular expressions: \s, \d, \w, [a-z\s] and
\* [a-z] under the i flag, [A-Z], [a-z], [A-Z\s], [^A-Za-z\s\d], the upper-case
\* consonants, [\s\-], [^A-Za-z] and the dot
InClass(c, cls) ==
    CASE cls = "s" -> c \in {" ", "\t", "\n"}
      [] cls = "d" -> IndexOf(c, Digits) # 0
      [] cls = "w" -> IsLetter(c) \/ IndexOf(c, Digits) # 0 \/ c = "_"
      [] cls = "as" -> IsLetter(c) \/ c \in {" ", "\t", "\n"}
      [] cls = "az" -> IsLetter(c)
      [] cls = "AZ" -> IndexOf(c, UpperAZ) # 0
      [] cls = "lc" -> IndexOf(c, LowerAZ) # 0
      [] cls = "AZs" -> IndexOf(c, UpperAZ) # 0 \/ c \in {" ", "\t", "\n"}
      [] cls = "sym" -> ~IsLetter(c) /\ c \notin {" ", "\t", "\n"} /\ IndexOf(c, Digits) = 0
      [] cls = "cons" -> IndexOf(c, UpperAZ) # 0 /\ c \notin {"A", "E", "I", "O", "U"}
      [] cls = "s-" -> c \in {" ", "\t", "\n", "-"}
      [] cls = "nl" -> ~IsLetter(c)
      [] cls = "any" -> c # "\n"

\* s.substring(from - 1, to): characters from..to, empty when from > to
Sub(s, from, to) == IF from > to THEN <<>> ELSE SubSeq(s, from, to)

\* the index after the longest run of characters of a class that starts at i
RECURSIVE Skip(_, _, _)
Skip(s, i, cls) ==
    IF i <= Len(s) /\ InClass(s[i], cls) THEN Skip(s, i + 1, cls) ELSE i

\* the index before the run of whitespace that ends at i
RECURSIVE BackSpaces(_, _)
BackSpaces(s, i) ==
    IF i >= 1 /\ InClass(s[i], "s") THEN BackSpaces(s, i - 1) ELSE i

\* String.prototype.trim
trim(s) ==
    LET from == Skip(s, 1, "s")
        to == BackSpaces(s, Len(s))
    IN  Sub(s, from, to)

\* s.replace(/\s+/g, ' ')
RECURSIVE CollapseSpaces(_)
CollapseSpaces(s) ==
    IF s = <<>> THEN <<>>
    ELSE IF InClass(s[1], "s")
         THEN <<" ">> \o CollapseSpaces(Sub(s, Skip(s, 1, "s"), Len(s)))
         ELSE <<s[1]>> \o CollapseSpaces(Tail(s))

\* s.split(sep) for a one-character separator
RECURSIVE Split(_, _)
Split(s, sep) ==
    LET k == IndexOf(sep, s)
    IN  IF k = 0 THEN <<s>>
        ELSE <<Sub(s, 1, k - 1)>> \o Split(Sub(s, k + 1, Len(s)), sep)

\* parts.join(sep)
RECURSIVE Join(_, _)
Join(parts, sep) ==
    IF parts = <<>> THEN <<>>
    ELSE IF Len(parts) = 1 THEN parts[1]
    ELSE parts[1] \o <<sep>> \o Join(Tail(parts), sep)

\* the literal `lit` (lower case) occurs in s at index i, ignoring case
MatchAt(s, i, lit) ==
    /\ i >= 1
    /\ i + Len(lit) - 1 <= Len(s)
    /\ toLowerCase(SubSeq(s, i, i + Len(lit) - 1)) = lit

\* one of the literals occurs in the lower-cased text
HasAny(lower, lits) ==
    \E lit \in lits : \E i \in 1..(Len(lower) - Len(lit) + 1) :
        lower[i] = lit[1] /\ SubSeq(lower, i, i + Len(lit) - 1) = lit

ContainsAny(s, lits) == HasAny(toLowerCase(s), lits)            \* /a|b|c/i

\* \d+\.\d{2} matched at index i with the whole digit run taken by \d+:
\* the index of its last character, or 0 when it does not match there
PriceEndAt(s, i) ==
    LET dot == Skip(s, i, "d")
    IN  IF /\ dot > i
           /\ dot + 2 <= Len(s)
           /\ s[dot] = "."
           /\ InClass(s[dot + 1], "d")
           /\ InClass(s[dot + 2], "d")
        THEN dot + 2
        ELSE 0

\* parseFloat of a matched \d+\.\d{2}, in cents
parseFloatCents(m) ==
    LET RECURSIVE Value(_)
        Value(ds) ==
            IF ds = <<>> THEN 0
            ELSE 10 * Value(Sub(ds, 1, Len(ds) - 1)) + (IndexOf(ds[Len(ds)], Digits) - 1)
        Cents(dot) == 100 * Value(Sub(m, 1, dot - 1)) + Value(Sub(m, dot + 1, dot + 2))
    IN  Cents(IndexOf(".", m))

\* /^\s*\d+\.\d{2}\s*$/
IsPriceOnly(s) ==
    LET t == trim(s) IN t # <<>> /\ PriceEndAt(t, 1) = Len(t)

\* line.match(/(\d+\.\d{2})/): the leftmost place where a price can be read,
\* as [from, to], or [0, 0] when there is none
FirstPrice(s) ==
    LET starts == { i \in 1..Len(s) : PriceEndAt(s, i) # 0 }
    IN  IF starts = {} THEN [from |-> 0, to |-> 0]
        ELSE LET i == CHOOSE x \in starts : \A y \in starts : x <= y
             IN  [from |-> i, to |-> PriceEndAt(s, i)]

(***************************************************************************)
(* fallbackParsing: the rule-based parser.  Prices are in cents and are    *)
(* added exactly; the program adds them as doubles.                        *)
(***************************************************************************)
StoreWords ==
    { <<"w","a","l","m","a","r","t">>, <<"t","a","r","g","e","t">>,
      <<"s","a","f","e","w","a","y">>, <<"k","r","o","g","e","r">>,
      <<"c","o","s","t","c","o">>,
      <<"w","h","o","l","e"," ","f","o","o","d","s">>,
      <<"w","i","n","c","o">>, <<"t","r","a","d","e","r"," ","j","o","e">>,
      <<"p","u","b","l","i","x">>,
      <<"a","l","b","e","r","t","s","o","n","s">> }

\* the test that sends a line past item extraction
IsNonItemLine(line) ==
    LET d1 == Skip(line, 1, "d")
        s1 == Skip(line, d1, "s")
        w1 == Skip(line, s1, "w")
        s2 == Skip(line, w1, "s")
        a1 == Skip(line, 1, "as")
        z1 == Skip(line, a1 + 1, "s")
        z2 == Skip(line, z1 + 2, "s")
        lower == toLowerCase(line)
        AllDigits(from, to) ==
            to <= Len(line) /\ \A j \in from..to : InClass(line[j], "d")
    IN  \/ /\ Len(line) >= 12                       \* /^\d{3}-\d{3}-\d{4}/
           /\ AllDigits(1, 3) /\ line[4] = "-"
           /\ AllDigits(5, 7) /\ line[8] = "-"
           /\ AllDigits(9, 12)
        \/ /\ d1 > 1 /\ s1 > d1 /\ w1 > s1 /\ s2 > w1
           /\ \E suf \in { <<"s","t">>, <<"a","v","e">>, <<"r","d">>, <<"b","l","v","d">> } :
                  MatchAt(line, s2, suf)   \* /^\d+\s+\w+\s+(st|ave|rd|blvd)/i
        \/ /\ a1 > 1 /\ a1 <= Len(line) /\ line[a1] = ","
           /\ z1 + 1 <= Len(line)
           /\ IsLetter(line[z1]) /\ IsLetter(line[z1 + 1])
           /\ AllDigits(z2, z2 + 4)                 \* /^[a-z\s]+,\s*[a-z]{2}\s*\d{5}/i
        \/ MatchAt(line, 1, <<"t","o","t","a","l">>)
        \/ MatchAt(line, 1, <<"s","u","b","t","o","t","a","l">>)
        \/ HasAny(lower,
                   { <<"t","a","x">>, <<"b","a","l","a","n","c","e">>,
                     <<"c","h","a","n","g","e">>, <<"t","e","n","d","e","r">>,
                     <<"p","a","y","m","e","n","t">> })
        \/ MatchAt(line, 1, <<"c","a","r","d">>)
        \/ HasAny(lower, { <<"c","a","s","h">>, <<"c","r","e","d","i","t">>, <<"d","e","b","i","t">> })
        \/ MatchAt(line, 1, <<"c","a","s","h","i","e","r">>)
        \/ HasAny(lower,
                   { <<"m","a","n","a","g","e","r">>, <<"a","s","s","o","c","i","a","t","e">> })
        \/ MatchAt(line, 1, <<"t","h","a","n","k"," ","y","o","u">>)
        \/ HasAny(lower,
                   { <<"v","i","s","i","t"," ","u","s">>, <<"s","t","o","r","e"," ","h","o","u","r","s">> })
        \/ Len(line) < 3

\* /^(sub)?total/i
IsTotalLine(line) ==
    \/ MatchAt(line, 1, <<"t","o","t","a","l">>)
    \/ MatchAt(line, 1, <<"s","u","b","t","o","t","a","l">>)

NoMatch == [ok |-> FALSE, itemName |-> <<>>, price |-> 0]

\* /^(.+?)\s+(\d+\.\d{2})$/ : the line ends in a price that follows
\* whitespace; the name is the shortest prefix that leaves only whitespace
\* before the price
Pattern1(line) ==
    LET n == Len(line)
        from == { i \in 2..n : PriceEndAt(line, i) = n /\ InClass(line[i - 1], "s") }
    IN  IF from = {} THEN NoMatch
        ELSE LET p == CHOOSE i \in from : TRUE
                 w == BackSpaces(line, p - 1)
                 k == IF w >= 1 THEN w ELSE 1
             IN  IF k + 1 <= p - 1
                 THEN [ok |-> TRUE, itemName |-> SubSeq(line, 1, k),
                       price |-> parseFloatCents(SubSeq(line, p, n))]
                 ELSE NoMatch

\* /^(\d+\.\d{2})\s+(.+)$/
Pattern3(line) ==
    LET n == Len(line)
        Rest(e, j) ==
            IF e = 0 \/ j = e + 1 THEN NoMatch
            ELSE IF j <= n
                 THEN [ok |-> TRUE, itemName |-> SubSeq(line, j, n),
                       price |-> parseFloatCents(SubSeq(line, 1, e))]
            ELSE IF j - (e + 1) >= 2
                 THEN [ok |-> TRUE, itemName |-> SubSeq(line, n, n),
                       price |-> parseFloatCents(SubSeq(line, 1, e))]
            ELSE NoMatch
        After(e) == Rest(e, IF e = 0 THEN 0 ELSE Skip(line, e + 1, "s"))
    IN  After(PriceEndAt(line, 1))

\* /(.+?)\s*(\d+\.\d{2})/ and not /phone|address|zip/i : the shortest
\* non-empty prefix after which, past any whitespace, a price can be read
Pattern4(line) ==
    LET ks == { k \in 1..(Len(line) - 1) : PriceEndAt(line, Skip(line, k + 1, "s")) # 0 }
        nope == { <<"p","h","o","n","e">>, <<"a","d","d","r","e","s","s">>, <<"z","i","p">> }
    IN  IF ks = {} \/ ContainsAny(line, nope) THEN NoMatch
        ELSE LET k == CHOOSE x \in ks : \A y \in ks : x <= y
                 p == Skip(line, k + 1, "s")
             IN  [ok |-> TRUE, itemName |-> SubSeq(line, 1, k),
                  price |-> parseFloatCents(SubSeq(line, p, PriceEndAt(line, p)))]

\* the pattern cascade for lines[i]: the name and price it settles on, and
\* whether the next line was consumed as this line's price (pattern 2)
MatchItem(lines, i) ==
    LET line == lines[i]
        Settle(p1, p3, p4, nextIsPrice) ==
            LET p2 == ~p1.ok /\ nextIsPrice
                m  == IF p1.ok THEN p1
                      ELSE IF p3.ok THEN p3
                      ELSE IF p4.ok THEN p4
                      ELSE IF p2 THEN [ok |-> TRUE, itemName |-> line,
                                       price |-> parseFloatCents(trim(lines[i + 1]))]
                      ELSE NoMatch
            IN  [itemName |-> m.itemName, price |-> m.price,
                 consumed |-> IF p2 THEN 1 ELSE 0]
    IN  Settle(Pattern1(line), Pattern3(line), Pattern4(line),
               i + 1 <= Len(lines) /\ IsPriceOnly(lines[i + 1]))

NonItemWords ==
    { <<"s","u","b","t","o","t","a","l">>, <<"t","a","x">>,
      <<"t","o","t","a","l">>, <<"b","a","l","a","n","c","e">>,
      <<"c","h","a","n","g","e">>, <<"t","e","n","d","e","r">>,
      <<"c","a","s","h","i","e","r">>, <<"m","a","n","a","g","e","r">>,
      <<"c","a","r","d">>, <<"c","a","s","h">>,
      <<"c","r","e","d","i","t">>, <<"d","e","b","i","t">>,
      <<"t","h","a","n","k"," ","y","o","u">>, <<"v","i","s","i","t">>,
      <<"s","t","o","r","e">>, <<"h","o","u","r","s">>,
      <<"p","h","o","n","e">>, <<"a","d","d","r","e","s","s">>,
      <<"c","i","t","y">>, <<"s","t","a","t","e">>, <<"z","i","p">> }

\* isGarbledText
isGarbledText(text) ==
    LET cleanText == SelectSeq(toLowerCase(text), LAMBDA c : InClass(c, "as"))
        IsVowel(c) == c \in {"a","e","i","o","u"}
        IsConsonant(c) == IsLetter(c) /\ ~IsVowel(c)
        words == SelectSeq(Split(CollapseSpaces(cleanText), " "), LAMBDA w : Len(w) > 0)
        shortWords == SelectSeq(words, LAMBDA w : Len(w) <= 2)
        Run4(P(_)) == \E i \in 1..(Len(cleanText) - 3) :
                          \A j \in i..(i + 3) : P(cleanText[j])
        Same4 == \E i \in 1..(Len(cleanText) - 3) :
                     /\ cleanText[i] # "\n"
                     /\ \A j \in i..(i + 3) : cleanText[j] = cleanText[i]
        hasVowels == \E i \in 1..Len(cleanText) : IsVowel(cleanText[i])
        hasConsonants == \E i \in 1..Len(cleanText) : IsConsonant(cleanText[i])
    IN  \/ 10 * Len(shortWords) > 6 * Len(words)
        \/ Run4(IsVowel)
        \/ Run4(IsConsonant)
        \/ Same4
        \/ ~hasVowels
        \/ ~hasConsonants

\* s.replace(/\babbr\b/gi, repl), scanning from index i
RECURSIVE ReplaceWord(_, _, _, _)
ReplaceWord(s, i, abbr, repl) ==
    LET n == Len(abbr)
        hit == /\ MatchAt(s, i, abbr)
               /\ i = 1 \/ ~InClass(s[i - 1], "w")
               /\ i + n > Len(s) \/ ~InClass(s[i + n], "w")
    IN  IF i > Len(s) THEN <<>>
        ELSE IF hit THEN repl \o ReplaceWord(s, i + n, abbr, repl)
        ELSE <<s[i]>> \o ReplaceWord(s, i + 1, abbr, repl)

\* enhanceProductName
enhanceProductName(name) ==
    LET e1 == ReplaceWord(name, 1, <<"g","v">>, <<"G","r","e","a","t"," ","V","a","l","u","e">>)
        e2 == ReplaceWord(e1, 1, <<"l","b">>, <<"P","o","u","n","d">>)
        e3 == ReplaceWord(e2, 1, <<"o","z">>, <<"O","u","n","c","e">>)
        e4 == ReplaceWord(e3, 1, <<"c","t">>, <<"C","o","u","n","t">>)
        e5 == ReplaceWord(e4, 1, <<"p","k">>, <<"P","a","c","k">>)
        e6 == ReplaceWord(e5, 1, <<"c","h","s">>, <<"C","h","e","e","s","e">>)
        words == Split(toLowerCase(e6), " ")
        Cap(word) == IF word = <<>> THEN <<>>
                     ELSE toUpperCase(<<word[1]>>) \o Tail(word)
    IN  Join([k \in 1..Len(words) |-> Cap(words[k])], " ")

\* categorizeProduct
categorizeProduct(name) ==
    IF ContainsAny(name, { <<"e","g","g">>, <<"m","i","l","k">>, <<"c","h","e","e","s","e">>,
                    <<"y","o","g","u","r","t">> })
    THEN "Dairy & Eggs"
    ELSE IF ContainsAny(name, { <<"b","e","e","f">>, <<"c","h","i","c","k","e","n">>, <<"p","o","r","k">>,
                    <<"f","i","s","h">> })
    THEN "Meat & Seafood"
    ELSE IF ContainsAny(name, { <<"a","p","p","l","e">>, <<"b","a","n","a","n","a">>,
                    <<"o","r","a","n","g","e">>, <<"v","e","g","e","t","a","b","l","e">> })
    THEN "Fresh Produce"
    ELSE IF ContainsAny(name, { <<"b","r","e","a","d">>, <<"c","a","k","e">>, <<"d","o","n","u","t">> })
    THEN "Bakery"
    ELSE IF ContainsAny(name, { <<"f","r","o","z","e","n">>, <<"i","c","e"," ","c","r","e","a","m">> })
    THEN "Frozen Foods"
    ELSE "Groceries"

\* an item of a parse result; price in cents, confidence in hundredths
Item(name, enhancedName, category, price, confidence) ==
    [name |-> name, enhancedName |-> enhancedName, category |-> category,
     price |-> price, confidence |-> confidence]

\* the item pushed for a matched name and price, if the checks keep it
ItemOf(itemName, price) ==
    LET cleanName == trim(CollapseSpaces(itemName))
        keep == /\ itemName # <<>> /\ price > 0 /\ price < 100000
                /\ ~ContainsAny(cleanName, NonItemWords)
                /\ Len(cleanName) >= 2
                /\ ~isGarbledText(cleanName)
        enhancedName == enhanceProductName(cleanName)
    IN  IF keep
        THEN <<Item(cleanName, enhancedName, categorizeProduct(enhancedName), price, 80)>>
        ELSE <<>>

\* the loop over the lines, from index i, with the items and the total so far
RECURSIVE ScanLines(_, _, _, _)
ScanLines(lines, i, items, total) ==
    LET line == lines[i]
        NewTotal(totalMatch) ==
            IF IsTotalLine(line) /\ totalMatch.from # 0
            THEN parseFloatCents(SubSeq(line, totalMatch.from, totalMatch.to))
            ELSE total
        Continue(m) ==
            ScanLines(lines, i + 1 + m.consumed,
                      items \o ItemOf(m.itemName, m.price), total)
    IN  IF i > Len(lines) THEN [items |-> items, total |-> total]
        ELSE IF IsNonItemLine(line)
        THEN ScanLines(lines, i + 1, items, NewTotal(FirstPrice(line)))
        ELSE Continue(MatchItem(lines, i))

sampleItems ==
    << Item(<<"B","A","N","A","N","A","S">>,
            <<"F","r","e","s","h"," ","B","a","n","a","n","a","s">>,
            "Fresh Produce", 199, 90),
       Item(<<"M","I","L","K"," ","1","G","A","L">>,
            <<"M","i","l","k"," ","1"," ","G","a","l","l","o","n">>,
            "Dairy & Eggs", 387, 90),
       Item(<<"B","R","E","A","D"," ","W","H","E","A","T">>,
            <<"W","h","e","a","t"," ","B","r","e","a","d">>,
            "Bakery", 250, 90),
       Item(<<"E","G","G","S"," ","1","2","C","T">>,
            <<"L","a","r","g","e"," ","E","g","g","s"," ","1","2"," ","C","o","u","n","t">>,
            "Dairy & Eggs", 498, 90),
       Item(<<"G","R","O","U","N","D"," ","B","E","E","F">>,
            <<"G","r","o","u","n","d"," ","B","e","e","f"," ","1"," ","l","b">>,
            "Meat & Seafood", 699, 90),
       Item(<<"A","P","P","L","E","S">>,
            <<"F","r","e","s","h"," ","A","p","p","l","e","s">>,
            "Fresh Produce", 345, 90),
       Item(<<"C","H","E","E","S","E"," ","S","L","I","C","E","D">>,
            <<"S","l","i","c","e","d"," ","C","h","e","e","s","e">>,
            "Dairy & Eggs", 429, 90) >>

SAMPLE_TOTAL == 2807

Sum(items) ==
    LET RECURSIVE S(_)
        S(k) == IF k = 0 THEN 0 ELSE S(k - 1) + items[k].price
    IN  S(Len(items))

\* ocrText.split('\n').map(line => line.trim()).filter(line => line.length > 0)
LinesOf(ocrText) ==
    LET raw == Split(ocrText, "\n")
    IN  SelectSeq([k \in 1..Len(raw) |-> trim(raw[k])], LAMBDA l : Len(l) > 0)

\* the store name sample results are given
detectedStore(ocrText) ==
    IF ContainsAny(ocrText, {<<"w","a","l","m","a","r","t">>}) THEN <<"W","a","l","m","a","r","t">>
    ELSE IF ContainsAny(ocrText, {<<"t","a","r","g","e","t">>}) THEN <<"T","a","r","g","e","t">>
    ELSE IF ContainsAny(ocrText, {<<"s","a","f","e","w","a","y">>}) THEN <<"S","a","f","e","w","a","y">>
    ELSE IF ContainsAny(ocrText, {<<"k","r","o","g","e","r">>}) THEN <<"K","r","o","g","e","r">>
    ELSE IF ContainsAny(ocrText, {<<"c","o","s","t","c","o">>}) THEN <<"C","o","s","t","c","o">>
    ELSE IF ContainsAny(ocrText, {<<"w","i","n","c","o">>}) THEN <<"W","i","n","C","o"," ","F","o","o","d","s">>
    ELSE <<"G","e","n","e","r","i","c"," ","S","t","o","r","e">>

\* mutation: the left operand whatever it is
OrElse_first(a, b) == a

\* `a || b` on numbers
OrElse(a, b) == IF a # 0 THEN a ELSE b

\* fallbackParsing.  metadata.date and metadata.location are left out: the
\* first is the wall clock, the second a fixed text, and nothing reads them.
fallbackParsing(ocrText) ==
    LET Result(storeName, items, total) ==
            [storeName |-> storeName,
             items |-> items,
             total |-> OrElse(total, Sum(items)),
             metadata |-> [storeFormat |-> "Rule-based fallback parsing",
                           itemCount |-> Len(items)]]
        StoreLine(lines, named) ==
            IF named = {} THEN <<"U","n","k","n","o","w","n"," ","S","t","o","r","e">>
            ELSE lines[CHOOSE k \in named : \A j \in named : k <= j]
        Finish(lines, scan) ==
            IF scan.items = <<>>
            THEN Result(detectedStore(ocrText), sampleItems, SAMPLE_TOTAL)
            ELSE Result(StoreLine(lines, { k \in 1..Len(lines) :
                                             ContainsAny(lines[k], StoreWords) }),
                        scan.items, scan.total)
        Scan(lines) == Finish(lines, ScanLines(lines, 1, <<>>, 0))
    IN  Scan(LinesOf(ocrText))

(***************************************************************************)
(* validateAIResult.  A field of the parsed response that the code reads   *)
(* as text is Undefined or Some(text); a field it reads as a number is     *)
(* NotNumber (absent, or of another type) or Number(n), n in cents for     *)
(* money and in hundredths for confidence.  aiResult.metadata is its       *)
(* storeFormat.                                                            *)
(***************************************************************************)
PRODUCT_CATEGORIES ==
    { "Groceries", "Dairy & Eggs", "Meat & Seafood", "Fresh Produce", "Bakery",
      "Frozen Foods", "Pantry & Dry Goods", "Snacks & Candy", "Beverages",
      "Health & Beauty", "Personal Care", "Household & Cleaning", "Baby & Kids",
      "Pet Supplies", "Pharmacy", "Electronics", "Clothing", "Home & Garden",
      "Automotive", "Office Supplies", "Other" }

NotNumber == [num |-> FALSE, n |-> 0]
Number(n) == [num |-> TRUE, n |-> n]

DEFAULT_CONFIDENCE == 70

\* the predicate of items.filter
validItem(item) ==
    /\ Truthy(item.name)
    /\ Truthy(item.enhancedName)
    /\ item.price.num
    /\ item.price.n > 0

\* the function of items.map
cleanItem(item) ==
    LET c == item.confidence
        \* Number(item.confidence) || 0.7 : NaN and 0 are falsy
        conf == IF ~c.num \/ c.n = 0 THEN DEFAULT_CONFIDENCE ELSE c.n
        min1 == IF conf < 100 THEN conf ELSE 100
    IN  Item(trim(item.name.s),
             trim(item.enhancedName.s),
             IF item.category.def /\ item.category.s \in PRODUCT_CATEGORIES
             THEN item.category.s ELSE "Other",
             item.price.n,
             IF min1 > 0 THEN min1 ELSE 0)

\* validateAIResult throws a TypeError: the response is null, or an element
\* of its items array is
validateThrows(aiResult) ==
    \/ aiResult.isNull
    \/ /\ aiResult.items.isArray
       /\ \E k \in 1..Len(aiResult.items.a) : aiResult.items.a[k].isNull

\* the total after `if (total === 0 || Math.abs(total - itemsSum) > itemsSum * 0.5)`
reconcile(total, itemsSum) ==
    LET diff == IF total >= itemsSum THEN total - itemsSum ELSE itemsSum - total
    IN  IF total = 0 \/ 2 * diff > itemsSum THEN itemsSum ELSE total

\* mutation: itemCount taken from the response's list, before the filter
validateAIResult_countAll(aiResult) ==
    LET items == IF aiResult.items.isArray
                 THEN LET kept == SelectSeq(aiResult.items.a, validItem)
                      IN  [k \in 1..Len(kept) |-> cleanItem(kept[k])]
                 ELSE <<>>
    IN  [storeName |-> IF Truthy(aiResult.storeName) THEN aiResult.storeName.s
                       ELSE <<"U","n","k","n","o","w","n"," ","S","t","o","r","e">>,
         items |-> items,
         total |-> reconcile(IF aiResult.total.num THEN aiResult.total.n ELSE 0, Sum(items)),
         metadata |-> [storeFormat |-> IF Truthy(aiResult.storeFormat)
                                       THEN aiResult.storeFormat.s ELSE "Unknown",
                       itemCount |-> Len(aiResult.items.a)]]

\* validateAIResult, when it does not throw
validateAIResult(aiResult) ==
    LET items == IF aiResult.items.isArray
                 THEN LET kept == SelectSeq(aiResult.items.a, validItem)
                      IN  [k \in 1..Len(kept) |-> cleanItem(kept[k])]
                 ELSE <<>>
    IN  [storeName |-> IF Truthy(aiResult.storeName) THEN aiResult.storeName.s
                       ELSE <<"U","n","k","n","o","w","n"," ","S","t","o","r","e">>,
         items |-> items,
         total |-> reconcile(IF aiResult.total.num THEN aiResult.total.n ELSE 0, Sum(items)),
         metadata |-> [storeFormat |-> IF Truthy(aiResult.storeFormat)
                                       THEN aiResult.storeFormat.s ELSE "Unknown",
                       itemCount |-> Len(items)]]

(***************************************************************************)
(* parseReceiptWithAI: the call, the collaborator's answer, the result.    *)
(***************************************************************************)
\* the lines receipts are made of: a store line, items with a trailing
\* price, a total, a name with its price on the next line, a leading price,
\* a price inside the line, a blank line
LinePool ==
    { <<"S","A","F","E","W","A","Y">>,
      <<"L","N","D"," ","O"," ","L","K","S"," ","B","U","T","T","E","R"," ","4",".","9","9">>,
      <<"M","I","L","K"," ","3",".","9","9">>,
      <<"T","O","T","A","L"," ","8",".","9","8">>,
      <<"B","R","E","A","D">>,
      <<"2",".","5","0">>,
      <<"1",".","9","9"," ","A","P","P","L","E","S">>,
      <<"E","G","G","S"," ","2",".","5","0"," ","F">>,
      <<" "," ">> }

Texts == { Join(ls, "\n") : ls \in SeqsUpTo(LinePool, MaxLines) }

\* the texts parsed with an API key configured
AITexts ==
    { <<>>,
      Join(<<<<"M","I","L","K"," ","3",".","9","9">>,
             <<"T","O","T","A","L"," ","8",".","9","8">>>>, "\n"),
      Join(<<<<"S","A","F","E","W","A","Y">>,
             <<"L","N","D"," ","O"," ","L","K","S"," ","B","U","T","T","E","R"," ","4",".","9","9">>>>, "\n") }

ParseInputs == (Texts \X {FALSE}) \cup (AITexts \X {TRUE})

ResponseItem(name, enhancedName, price, category, confidence) ==
    [isNull |-> FALSE, name |-> name, enhancedName |-> enhancedName,
     price |-> price, category |-> category, confidence |-> confidence]

NullItem == [ResponseItem(Undefined, Undefined, NotNumber, Undefined, NotNumber)
                EXCEPT !.isNull = TRUE]

\* items a response may list: a complete one, one whose category is not in
\* the enumeration and whose confidence is missing, one whose name is a
\* blank, one without a price, one priced zero, one priced below zero, null
AIItemPool ==
    { ResponseItem(Some(Str.MILK), Some(Str.Milk), Number(399), Some("Dairy & Eggs"), Number(95)),
      ResponseItem(Some(Str.BUTTER), Some(Str.Butter), Number(499), Some("Junk"), NotNumber),
      ResponseItem(Some(<<" ">>), Some(Str.Milk), Number(399), Undefined, Number(150)),
      ResponseItem(Some(Str.MILK), Some(Str.Milk), NotNumber, Some("Bakery"), Number(-20)),
      ResponseItem(Some(Str.MILK), Undefined, Number(0), Some("Other"), Number(0)),
      ResponseItem(Undefined, Some(Str.Milk), Number(-100), Some("Bakery"), Number(95)),
      NullItem }

Response(storeName, total, items) ==
    [isNull |-> FALSE, storeName |-> storeName, total |-> total, items |-> items,
     storeFormat |-> Undefined]

NullResponse ==
    [Response(Undefined, NotNumber, [isArray |-> FALSE, a |-> <<>>]) EXCEPT !.isNull = TRUE]

AIResponses ==
    { Response(sn, tot, its) :
        sn \in {Undefined, Some(Str.SAFEWAY)},
        tot \in {NotNumber, Number(0), Number(600), Number(1500)},
        its \in {[isArray |-> FALSE, a |-> <<>>]} \cup
                { [isArray |-> TRUE, a |-> a] : a \in SeqsUpTo(AIItemPool, MaxAIItems) } }
    \cup {NullResponse}

\* how the request to the collaborator ends: fetch rejects; the status is not
\* a success; the body is not the expected JSON envelope; the content is not
\* JSON; the content parses to a value
Outcomes ==
    { [kind |-> k, json |-> NullResponse] :
        k \in {"networkError", "httpError", "badBody", "badContent"} }
    \cup { [kind |-> "content", json |-> r] : r \in AIResponses }

NoOutcome == [kind |-> "none", json |-> NullResponse]

ParseResult(path, result) == [op |-> "parse", path |-> path, result |-> result]

\* parseReceiptWithAI up to the await of fetch
ParseCall(ocrText, hasKey) ==
    /\ pc = "idle"
    /\ arg' = [op |-> "parse", ocrText |-> ocrText, hasKey |-> hasKey,
               outcome |-> NoOutcome]
    /\ IF ~hasKey
       THEN /\ pc' = "parsed"
            /\ ret' = ParseResult("fallback", fallbackParsing(ocrText))
       ELSE /\ pc' = "fetching"
            /\ ret' = NoCall
    /\ UNCHANGED <<STORE_ADDRESS_DATABASE, localStorage, now, saved, tabs>>

\* mutation: no try/catch around the request and the validation
FetchSettles_noCatch(outcome) ==
    /\ pc = "fetching"
    /\ arg' = [arg EXCEPT !.outcome = outcome]
    /\ pc' = "parsed"
    /\ ret' = IF outcome.kind = "content" /\ ~validateThrows(outcome.json)
              THEN ParseResult("ai", validateAIResult(outcome.json))
              ELSE [op |-> "parse", path |-> "error", result |-> outcome.kind]
    /\ UNCHANGED <<STORE_ADDRESS_DATABASE, localStorage, now, saved, tabs>>

\* parseReceiptWithAI from the settling of fetch to its return
FetchSettles(outcome) ==
    /\ pc = "fetching"
    /\ arg' = [arg EXCEPT !.outcome = outcome]
    /\ pc' = "parsed"
    /\ ret' = IF outcome.kind = "content" /\ ~validateThrows(outcome.json)
              THEN ParseResult("ai", validateAIResult(outcome.json))
              ELSE ParseResult("fallback", fallbackParsing(arg.ocrText))
    /\ UNCHANGED <<STORE_ADDRESS_DATABASE, localStorage, now, saved, tabs>>

\* the correction recorded before a parse
ParseSaves == { Correction(Str.SAFEWAY, Str.BUTTER, "item_hidden", Str.HIDDEN) }

NextParse ==
    \/ \E data \in ParseSaves : saved = <<>> /\ SaveLearning(data)
    \/ pc = "idle" /\ \E in \in ParseInputs : ParseCall(in[1], in[2])
    \/ pc = "fetching" /\ \E outcome \in Outcomes : FetchSettles(outcome)
    \/ Return

SpecParse == Init /\ [][NextParse]_vars

\* The program's own continuations run when they are ready.  Nothing in
\* parseReceiptWithAI settles the request: no timer, no AbortController, so
\* FetchSettles is the collaborator's step and carries no fairness.
SpecParseLive == SpecParse /\ WF_vars(Return)

(***************************************************************************)
(* Claims about parseReceiptWithAI, checked under SpecParse.               *)
(***************************************************************************)
\* parseReceiptWithAI has returned and its caller holds the result
Parsed == pc = "parsed" /\ ret.op = "parse"

\* the PatternTable holds the hide sentinel for the item under the store
HiddenFor(storeName, item) ==
    Lookup(getLearnedPatterns(localStorage, storeName), item.name) = Some(Str.HIDDEN)

\* C1: once a hide-sentinel correction for text T is recorded under store S,
\* a parse of a receipt of store S that yields an item named T, on the AI
\* path or the rule-based path, returns the item with shouldHide = true.
C1_HiddenItemMarkedOnParse ==
    Parsed =>
        \A k \in 1..Len(ret.result.items) :
            LET item == ret.result.items[k]
            IN  HiddenFor(ret.result.storeName, item) =>
                    "shouldHide" \in DOMAIN item /\ item.shouldHide

Abs(n) == IF n >= 0 THEN n ELSE -n

\* C7: on both paths the returned total is within 50% of the sum of the
\* returned items' prices.
C7_TotalWithinHalfOfSum ==
    Parsed =>
        2 * Abs(ret.result.total - Sum(ret.result.items)) <= Sum(ret.result.items)

\* the parse had no declared total to go by: no total line among the lines of
\* the text on the rule-based path; on the AI path a total that is missing,
\* not a number, or zero
DeclaredTotalAbsent ==
    IF ret.path = "ai"
    THEN ~arg.outcome.json.total.num \/ arg.outcome.json.total.n = 0
    ELSE LET lines == LinesOf(arg.ocrText)
         IN  \A k \in 1..Len(lines) : ~IsTotalLine(lines[k])

\* C8: when the declared total is absent the returned total is the sum of the
\* returned items' prices, to the cent.
C8_AbsentTotalIsSum ==
    (Parsed /\ DeclaredTotalAbsent) =>
        ret.result.total = Sum(ret.result.items)

\* the rule-based path extracted two items from a text without a total line
C8_Witness ==
    /\ Parsed /\ DeclaredTotalAbsent
    /\ ret.path = "fallback"
    /\ ret.result.items # sampleItems
    /\ Len(ret.result.items) = 2
    /\ ret.result.total = 898

\* C9: metadata.itemCount is the number of items in the returned list, for a
\* validated AI response, a rule-based extraction and the sample items alike.
C9_ItemCountIsLength ==
    Parsed => ret.result.metadata.itemCount = Len(ret.result.items)

\* an AI response listed more items than validation kept
C9_Witness ==
    /\ Parsed
    /\ ret.path = "ai"
    /\ Len(ret.result.items) = 1
    /\ Len(arg.outcome.json.items.a) = 2
    /\ ret.result.metadata.itemCount = 1

\* C10: every item of a result accepted from the AI collaborator has a
\* non-empty name, a non-empty enhancedName, a price above zero and a
\* category of the enumeration.
C10_AcceptedItemsWellFormed ==
    (Parsed /\ ret.path = "ai") =>
        \A k \in 1..Len(ret.result.items) :
            LET item == ret.result.items[k]
            IN  /\ item.name # <<>>
                /\ item.enhancedName # <<>>
                /\ item.price > 0
                /\ item.category \in PRODUCT_CATEGORIES

\* the response has no item that passes validation
ZeroValidItems(aiResult) ==
    \/ aiResult.isNull
    \/ ~aiResult.items.isArray
    \/ \A k \in 1..Len(aiResult.items.a) :
           aiResult.items.a[k].isNull \/ ~validItem(aiResult.items.a[k])

\* C11: when the collaborator's response yields zero valid items the parse
\* returns the rule-based result for the text; an AI result with an empty
\* item list is never returned.
C11_ZeroValidItemsFallThrough ==
    (Parsed /\ arg.outcome.kind = "content" /\ ZeroValidItems(arg.outcome.json)) =>
        /\ ret.path = "fallback"
        /\ ret.result = fallbackParsing(arg.ocrText)

\* the collaborator was not configured, failed, or answered with a value on
\* which validation throws
CollaboratorFailed ==
    \/ ~arg.hasKey
    \/ arg.outcome.kind \in {"networkError", "httpError", "badBody", "badContent"}
    \/ arg.outcome.kind = "content" /\ validateThrows(arg.outcome.json)

C13_PendingParseReturns ==
    (pc = "fetching") ~> (pc = "parsed")

(***************************************************************************)
(* Regular expressions as data.  A pattern is a sequence of tokens:        *)
(*   <<"lit", A>>          one of the literal texts in A (lower case; the  *)
(*                         empty text makes the token optional)            *)
(*   <<"cls", c, lo, hi>>  lo to hi characters of class c; hi = -1 is      *)
(*                         unbounded                                       *)
(*   <<"b">>  \b           <<"bol">>  ^           <<"eol">>  $             *)
(* An alternation of longer branches is written as several patterns.       *)
(***************************************************************************)
\* the positions at which a match of pat[k..] that starts at position i of s
\* can end
RECURSIVE MatchEnds(_, _, _, _)
MatchEnds(pat, s, k, i) ==
    LET t == pat[k]
        Word(j) == j >= 1 /\ j <= Len(s) /\ InClass(s[j], "w")
        Has(a) == i + Len(a) - 1 <= Len(s) /\ SubSeq(s, i, i + Len(a) - 1) = a
        most == IF t[4] = -1 \/ i + t[4] - 1 > Len(s) THEN Len(s) - i + 1 ELSE t[4]
        Runs == { n \in t[3]..most : \A j \in i..(i + n - 1) : InClass(s[j], t[2]) }
    IN  IF k > Len(pat) THEN {i}
        ELSE CASE t[1] = "lit" ->
                    UNION { MatchEnds(pat, s, k + 1, i + Len(a)) : a \in { x \in t[2] : Has(x) } }
               [] t[1] = "cls" ->
                    UNION { MatchEnds(pat, s, k + 1, i + n) : n \in Runs }
               [] t[1] = "b" ->
                    IF Word(i - 1) # Word(i) THEN MatchEnds(pat, s, k + 1, i) ELSE {}
               [] t[1] = "bol" ->
                    IF i = 1 THEN MatchEnds(pat, s, k + 1, i) ELSE {}
               [] t[1] = "eol" ->
                    IF i = Len(s) + 1 THEN MatchEnds(pat, s, k + 1, i) ELSE {}

\* pattern.test(s), s in lower case
Test(pat, s) == \E i \in 1..(Len(s) + 1) : MatchEnds(pat, s, 1, i) # {}

\* some pattern of the list matches
TestAny(patterns, s) == \E n \in 1..Len(patterns) : Test(patterns[n], s)

(***************************************************************************)
(* EnhancedNonFoodDetector.  Confidence and context scores are in          *)
(* hundredths, prices in cents.                                            *)
(***************************************************************************)
\* detectionRules.definiteNonFood: category and patterns, in source order
definiteNonFood == <<
    << "tax", <<
        \* /\b(sales?|state|city|local|county)\s*tax\b/
        << <<"b">>,
           <<"lit", {<<"c","i","t","y">>, <<"c","o","u","n","t","y">>, <<"l","o","c","a","l">>, <<"s","a","l","e">>, <<"s","a","l","e","s">>, <<"s","t","a","t","e">>}>>,
           <<"cls", "s", 0, -1>>, <<"lit", {<<"t","a","x">>}>>, <<"b">> >>,
        \* /\btax\s*(\d+\.\d{2}|\d+%)/
        << <<"b">>, <<"lit", {<<"t","a","x">>}>>, <<"cls", "s", 0, -1>>, <<"cls", "d", 1, -1>>,
           <<"lit", {<<".">>}>>, <<"cls", "d", 2, 2>> >>,
        << <<"b">>, <<"lit", {<<"t","a","x">>}>>, <<"cls", "s", 0, -1>>, <<"cls", "d", 1, -1>>,
           <<"lit", {<<"%">>}>> >>,
        \* /\b(hst|gst|pst|vat)\b/
        << <<"b">>,
           <<"lit", {<<"g","s","t">>, <<"h","s","t">>, <<"p","s","t">>, <<"v","a","t">>}>>,
           <<"b">> >>,
        \* /\btotal\s*tax/
        << <<"b">>, <<"lit", {<<"t","o","t","a","l">>}>>, <<"cls", "s", 0, -1>>,
           <<"lit", {<<"t","a","x">>}>> >>,
        \* /tax\s*total/
        << <<"lit", {<<"t","a","x">>}>>, <<"cls", "s", 0, -1>>,
           <<"lit", {<<"t","o","t","a","l">>}>> >> >> >>,
    << "payment", <<
        \* /\b(amex|visa|mastercard|discover|card)\s*(tend|tender|payment|transaction)/
        << <<"b">>,
           <<"lit", {<<"a","m","e","x">>, <<"c","a","r","d">>, <<"d","i","s","c","o","v","e","r">>, <<"m","a","s","t","e","r","c","a","r","d">>, <<"v","i","s","a">>}>>,
           <<"cls", "s", 0, -1>>,
           <<"lit", {<<"p","a","y","m","e","n","t">>, <<"t","e","n","d">>, <<"t","e","n","d","e","r">>, <<"t","r","a","n","s","a","c","t","i","o","n">>}>> >>,
        \* /\b(cash|credit|debit)\s*(tend|tender|payment)/
        << <<"b">>,
           <<"lit", {<<"c","a","s","h">>, <<"c","r","e","d","i","t">>, <<"d","e","b","i","t">>}>>,
           <<"cls", "s", 0, -1>>,
           <<"lit", {<<"p","a","y","m","e","n","t">>, <<"t","e","n","d">>, <<"t","e","n","d","e","r">>}>> >>,
        \* /\b(payment|tender)\s*(amount|method)/
        << <<"b">>, <<"lit", {<<"p","a","y","m","e","n","t">>, <<"t","e","n","d","e","r">>}>>,
           <<"cls", "s", 0, -1>>,
           <<"lit", {<<"a","m","o","u","n","t">>, <<"m","e","t","h","o","d">>}>> >>,
        \* /\bchange\s*(due|given)/
        << <<"b">>, <<"lit", {<<"c","h","a","n","g","e">>}>>, <<"cls", "s", 0, -1>>,
           <<"lit", {<<"d","u","e">>, <<"g","i","v","e","n">>}>> >>,
        \* /\b(subtotal|total|balance)\s*\d+\.\d{2}$/
        << <<"b">>,
           <<"lit", {<<"b","a","l","a","n","c","e">>, <<"s","u","b","t","o","t","a","l">>, <<"t","o","t","a","l">>}>>,
           <<"cls", "s", 0, -1>>, <<"cls", "d", 1, -1>>, <<"lit", {<<".">>}>>,
           <<"cls", "d", 2, 2>>, <<"eol">> >>,
        \* /\b(cashback|cash\s*back)\b/
        << <<"b">>, <<"lit", {<<"c","a","s","h","b","a","c","k">>}>>, <<"b">> >>,
        << <<"b">>, <<"lit", {<<"c","a","s","h">>}>>, <<"cls", "s", 0, -1>>,
           <<"lit", {<<"b","a","c","k">>}>>, <<"b">> >>,
        \* /\bgift\s*card/
        << <<"b">>, <<"lit", {<<"g","i","f","t">>}>>, <<"cls", "s", 0, -1>>,
           <<"lit", {<<"c","a","r","d">>}>> >> >> >>,
    << "fees", <<
        \* /\b(bag|bottle|container|recycling|environmental)\s*(fee|charge|deposit)/
        << <<"b">>,
           <<"lit", {<<"b","a","g">>, <<"b","o","t","t","l","e">>, <<"c","o","n","t","a","i","n","e","r">>, <<"e","n","v","i","r","o","n","m","e","n","t","a","l">>, <<"r","e","c","y","c","l","i","n","g">>}>>,
           <<"cls", "s", 0, -1>>,
           <<"lit", {<<"c","h","a","r","g","e">>, <<"d","e","p","o","s","i","t">>, <<"f","e","e">>}>> >>,
        \* /\bcrv\b/
        << <<"b">>, <<"lit", {<<"c","r","v">>}>>, <<"b">> >>,
        \* /\b(service|handling|processing|delivery|convenience)\s*(fee|charge)/
        << <<"b">>,
           <<"lit", {<<"c","o","n","v","e","n","i","e","n","c","e">>, <<"d","e","l","i","v","e","r","y">>, <<"h","a","n","d","l","i","n","g">>, <<"p","r","o","c","e","s","s","i","n","g">>, <<"s","e","r","v","i","c","e">>}>>,
           <<"cls", "s", 0, -1>>, <<"lit", {<<"c","h","a","r","g","e">>, <<"f","e","e">>}>> >>,
        \* /\b(plastic|paper|shopping)\s*bag/
        << <<"b">>,
           <<"lit", {<<"p","a","p","e","r">>, <<"p","l","a","s","t","i","c">>, <<"s","h","o","p","p","i","n","g">>}>>,
           <<"cls", "s", 0, -1>>, <<"lit", {<<"b","a","g">>}>> >>,
        \* /\bdeposit\s*(fee|charge)/
        << <<"b">>, <<"lit", {<<"d","e","p","o","s","i","t">>}>>, <<"cls", "s", 0, -1>>,
           <<"lit", {<<"c","h","a","r","g","e">>, <<"f","e","e">>}>> >> >> >>,
    << "coupons", <<
        \* /\b(manufacturer|store|digital|mobile|app)\s*(coupon|discount)/
        << <<"b">>,
           <<"lit", {<<"a","p","p">>, <<"d","i","g","i","t","a","l">>, <<"m","a","n","u","f","a","c","t","u","r","e","r">>, <<"m","o","b","i","l","e">>, <<"s","t","o","r","e">>}>>,
           <<"cls", "s", 0, -1>>,
           <<"lit", {<<"c","o","u","p","o","n">>, <<"d","i","s","c","o","u","n","t">>}>> >>,
        \* /\bscanned\s*coupon/
        << <<"b">>, <<"lit", {<<"s","c","a","n","n","e","d">>}>>, <<"cls", "s", 0, -1>>,
           <<"lit", {<<"c","o","u","p","o","n">>}>> >>,
        \* /\bmfr\s*coupon/
        << <<"b">>, <<"lit", {<<"m","f","r">>}>>, <<"cls", "s", 0, -1>>,
           <<"lit", {<<"c","o","u","p","o","n">>}>> >>,
        \* /\b(member|club|card)\s*(savings|discount|price)/
        << <<"b">>,
           <<"lit", {<<"c","a","r","d">>, <<"c","l","u","b">>, <<"m","e","m","b","e","r">>}>>,
           <<"cls", "s", 0, -1>>,
           <<"lit", {<<"d","i","s","c","o","u","n","t">>, <<"p","r","i","c","e">>, <<"s","a","v","i","n","g","s">>}>> >>,
        \* /\btotal\s*savings/
        << <<"b">>, <<"lit", {<<"t","o","t","a","l">>}>>, <<"cls", "s", 0, -1>>,
           <<"lit", {<<"s","a","v","i","n","g","s">>}>> >>,
        \* /\byou\s*saved/
        << <<"b">>, <<"lit", {<<"y","o","u">>}>>, <<"cls", "s", 0, -1>>,
           <<"lit", {<<"s","a","v","e","d">>}>> >>,
        \* /^\d+\.\d{2}-$/
        << <<"bol">>, <<"cls", "d", 1, -1>>, <<"lit", {<<".">>}>>, <<"cls", "d", 2, 2>>,
           <<"lit", {<<"-">>}>>, <<"eol">> >>,
        \* /-\s*\$?\d+\.\d{2}$/
        << <<"lit", {<<"-">>}>>, <<"cls", "s", 0, -1>>, <<"lit", {<<>>, <<"$">>}>>,
           <<"cls", "d", 1, -1>>, <<"lit", {<<".">>}>>, <<"cls", "d", 2, 2>>, <<"eol">> >>,
        \* /\b(promo|promotion|deal|offer|rebate)\b/
        << <<"b">>,
           <<"lit", {<<"d","e","a","l">>, <<"o","f","f","e","r">>, <<"p","r","o","m","o">>, <<"p","r","o","m","o","t","i","o","n">>, <<"r","e","b","a","t","e">>}>>,
           <<"b">> >> >> >>
    >>

\* detectionRules.storeServices
storeServices == <<
    \* /\bstore\s*\d+/
    << <<"b">>, <<"lit", {<<"s","t","o","r","e">>}>>, <<"cls", "s", 0, -1>>,
       <<"cls", "d", 1, -1>> >>,
    \* /\b(manager|employee|staff|cashier)\b/
    << <<"b">>,
       <<"lit", {<<"c","a","s","h","i","e","r">>, <<"e","m","p","l","o","y","e","e">>, <<"m","a","n","a","g","e","r">>, <<"s","t","a","f","f">>}>>,
       <<"b">> >>,
    \* /\b(receipt|transaction)\s*(number|id|#)/
    << <<"b">>,
       <<"lit", {<<"r","e","c","e","i","p","t">>, <<"t","r","a","n","s","a","c","t","i","o","n">>}>>,
       <<"cls", "s", 0, -1>>, <<"lit", {<<"#">>, <<"i","d">>, <<"n","u","m","b","e","r">>}>> >>,
    \* /\byour\s*cashier\s*today\s*was/
    << <<"b">>, <<"lit", {<<"y","o","u","r">>}>>, <<"cls", "s", 0, -1>>,
       <<"lit", {<<"c","a","s","h","i","e","r">>}>>, <<"cls", "s", 0, -1>>,
       <<"lit", {<<"t","o","d","a","y">>}>>, <<"cls", "s", 0, -1>>,
       <<"lit", {<<"w","a","s">>}>> >>,
    \* /\bthank\s*you\s*for\s*shopping/
    << <<"b">>, <<"lit", {<<"t","h","a","n","k">>}>>, <<"cls", "s", 0, -1>>,
       <<"lit", {<<"y","o","u">>}>>, <<"cls", "s", 0, -1>>, <<"lit", {<<"f","o","r">>}>>,
       <<"cls", "s", 0, -1>>, <<"lit", {<<"s","h","o","p","p","i","n","g">>}>> >>,
    \* /\b(date|time|address|phone)\s*[:=]/
    << <<"b">>,
       <<"lit", {<<"a","d","d","r","e","s","s">>, <<"d","a","t","e">>, <<"p","h","o","n","e">>, <<"t","i","m","e">>}>>,
       <<"cls", "s", 0, -1>>, <<"lit", {<<":">>, <<"=">>}>> >>,
    \* /\b\d{1,2}\/\d{1,2}\/\d{2,4}\b/
    << <<"b">>, <<"cls", "d", 1, 2>>, <<"lit", {<<"/">>}>>, <<"cls", "d", 1, 2>>,
       <<"lit", {<<"/">>}>>, <<"cls", "d", 2, 4>>, <<"b">> >>,
    \* /\b\d{3}-\d{3}-\d{4}\b/
    << <<"b">>, <<"cls", "d", 3, 3>>, <<"lit", {<<"-">>}>>, <<"cls", "d", 3, 3>>,
       <<"lit", {<<"-">>}>>, <<"cls", "d", 4, 4>>, <<"b">> >>,
    \* /\b\d+\s*(first|main|state|road|street|ave|blvd)\b/
    << <<"b">>, <<"cls", "d", 1, -1>>, <<"cls", "s", 0, -1>>,
       <<"lit", {<<"a","v","e">>, <<"b","l","v","d">>, <<"f","i","r","s","t">>, <<"m","a","i","n">>, <<"r","o","a","d">>, <<"s","t","a","t","e">>, <<"s","t","r","e","e","t">>}>>,
       <<"b">> >>
    >>

\* detectionRules.likelyNonFood: category and patterns, in source order
likelyNonFood == <<
    << "personalCare", <<
        \* /\b(shampoo|conditioner|soap|lotion|deodorant|toothpaste|mouthwash)\b/
        << <<"b">>,
           <<"lit", {<<"c","o","n","d","i","t","i","o","n","e","r">>, <<"d","e","o","d","o","r","a","n","t">>, <<"l","o","t","i","o","n">>, <<"m","o","u","t","h","w","a","s","h">>, <<"s","h","a","m","p","o","o">>, <<"s","o","a","p">>, <<"t","o","o","t","h","p","a","s","t","e">>}>>,
           <<"b">> >>,
        \* /\b(razor|shaving|cologne|perfume|makeup|lipstick|foundation)\b/
        << <<"b">>,
           <<"lit", {<<"c","o","l","o","g","n","e">>, <<"f","o","u","n","d","a","t","i","o","n">>, <<"l","i","p","s","t","i","c","k">>, <<"m","a","k","e","u","p">>, <<"p","e","r","f","u","m","e">>, <<"r","a","z","o","r">>, <<"s","h","a","v","i","n","g">>}>>,
           <<"b">> >>,
        \* /\b(bandaid|first\s*aid|medicine|vitamin|supplement|aspirin|tylenol|advil)\b/
        << <<"b">>, <<"lit", {<<"b","a","n","d","a","i","d">>}>>, <<"b">> >>,
        << <<"b">>, <<"lit", {<<"f","i","r","s","t">>}>>, <<"cls", "s", 0, -1>>,
           <<"lit", {<<"a","i","d">>}>>, <<"b">> >>,
        << <<"b">>, <<"lit", {<<"m","e","d","i","c","i","n","e">>}>>, <<"b">> >>,
        << <<"b">>, <<"lit", {<<"v","i","t","a","m","i","n">>}>>, <<"b">> >>,
        << <<"b">>, <<"lit", {<<"s","u","p","p","l","e","m","e","n","t">>}>>, <<"b">> >>,
        << <<"b">>, <<"lit", {<<"a","s","p","i","r","i","n">>}>>, <<"b">> >>,
        << <<"b">>, <<"lit", {<<"t","y","l","e","n","o","l">>}>>, <<"b">> >>,
        << <<"b">>, <<"lit", {<<"a","d","v","i","l">>}>>, <<"b">> >>,
        \* /\b(feminine|tampons|pads|pregnancy|test)\b/
        << <<"b">>,
           <<"lit", {<<"f","e","m","i","n","i","n","e">>, <<"p","a","d","s">>, <<"p","r","e","g","n","a","n","c","y">>, <<"t","a","m","p","o","n","s">>, <<"t","e","s","t">>}>>,
           <<"b">> >> >> >>,
    << "household", <<
        \* /\b(detergent|fabric\s*softener|bleach|cleaner|disinfectant|windex|lysol)\b/
        << <<"b">>, <<"lit", {<<"d","e","t","e","r","g","e","n","t">>}>>, <<"b">> >>,
        << <<"b">>, <<"lit", {<<"f","a","b","r","i","c">>}>>, <<"cls", "s", 0, -1>>,
           <<"lit", {<<"s","o","f","t","e","n","e","r">>}>>, <<"b">> >>,
        << <<"b">>, <<"lit", {<<"b","l","e","a","c","h">>}>>, <<"b">> >>,
        << <<"b">>, <<"lit", {<<"c","l","e","a","n","e","r">>}>>, <<"b">> >>,
        << <<"b">>, <<"lit", {<<"d","i","s","i","n","f","e","c","t","a","n","t">>}>>,
           <<"b">> >>,
        << <<"b">>, <<"lit", {<<"w","i","n","d","e","x">>}>>, <<"b">> >>,
        << <<"b">>, <<"lit", {<<"l","y","s","o","l">>}>>, <<"b">> >>,
        \* /\b(toilet\s*paper|paper\s*towel|tissue|napkin|kleenex|charmin|bounty)\b/
        << <<"b">>, <<"lit", {<<"t","o","i","l","e","t">>}>>, <<"cls", "s", 0, -1>>,
           <<"lit", {<<"p","a","p","e","r">>}>>, <<"b">> >>,
        << <<"b">>, <<"lit", {<<"p","a","p","e","r">>}>>, <<"cls", "s", 0, -1>>,
           <<"lit", {<<"t","o","w","e","l">>}>>, <<"b">> >>,
        << <<"b">>, <<"lit", {<<"t","i","s","s","u","e">>}>>, <<"b">> >>,
        << <<"b">>, <<"lit", {<<"n","a","p","k","i","n">>}>>, <<"b">> >>,
        << <<"b">>, <<"lit", {<<"k","l","e","e","n","e","x">>}>>, <<"b">> >>,
        << <<"b">>, <<"lit", {<<"c","h","a","r","m","i","n">>}>>, <<"b">> >>,
        << <<"b">>, <<"lit", {<<"b","o","u","n","t","y">>}>>, <<"b">> >>,
        \* /\b(trash\s*bag|garbage\s*bag|storage\s*bag|aluminum\s*foil|plastic\s*wrap)\b/
        << <<"b">>, <<"lit", {<<"t","r","a","s","h">>}>>, <<"cls", "s", 0, -1>>,
           <<"lit", {<<"b","a","g">>}>>, <<"b">> >>,
        << <<"b">>, <<"lit", {<<"g","a","r","b","a","g","e">>}>>, <<"cls", "s", 0, -1>>,
           <<"lit", {<<"b","a","g">>}>>, <<"b">> >>,
        << <<"b">>, <<"lit", {<<"s","t","o","r","a","g","e">>}>>, <<"cls", "s", 0, -1>>,
           <<"lit", {<<"b","a","g">>}>>, <<"b">> >>,
        << <<"b">>, <<"lit", {<<"a","l","u","m","i","n","u","m">>}>>, <<"cls", "s", 0, -1>>,
           <<"lit", {<<"f","o","i","l">>}>>, <<"b">> >>,
        << <<"b">>, <<"lit", {<<"p","l","a","s","t","i","c">>}>>, <<"cls", "s", 0, -1>>,
           <<"lit", {<<"w","r","a","p">>}>>, <<"b">> >>,
        \* /\b(light\s*bulb|battery|batteries|extension\s*cord|air\s*freshener)\b/
        << <<"b">>, <<"lit", {<<"l","i","g","h","t">>}>>, <<"cls", "s", 0, -1>>,
           <<"lit", {<<"b","u","l","b">>}>>, <<"b">> >>,
        << <<"b">>, <<"lit", {<<"b","a","t","t","e","r","y">>}>>, <<"b">> >>,
        << <<"b">>, <<"lit", {<<"b","a","t","t","e","r","i","e","s">>}>>, <<"b">> >>,
        << <<"b">>, <<"lit", {<<"e","x","t","e","n","s","i","o","n">>}>>,
           <<"cls", "s", 0, -1>>, <<"lit", {<<"c","o","r","d">>}>>, <<"b">> >>,
        << <<"b">>, <<"lit", {<<"a","i","r">>}>>, <<"cls", "s", 0, -1>>,
           <<"lit", {<<"f","r","e","s","h","e","n","e","r">>}>>, <<"b">> >> >> >>,
    << "pharmacy", <<
        \* /\b(prescription|rx|pharmacy|medication|pills|tablets|capsules)\b/
        << <<"b">>,
           <<"lit", {<<"c","a","p","s","u","l","e","s">>, <<"m","e","d","i","c","a","t","i","o","n">>, <<"p","h","a","r","m","a","c","y">>, <<"p","i","l","l","s">>, <<"p","r","e","s","c","r","i","p","t","i","o","n">>, <<"r","x">>, <<"t","a","b","l","e","t","s">>}>>,
           <<"b">> >>,
        \* /\b(cough|cold|flu|allergy|pain\s*relief|antacid|laxative)\b/
        << <<"b">>, <<"lit", {<<"c","o","u","g","h">>}>>, <<"b">> >>,
        << <<"b">>, <<"lit", {<<"c","o","l","d">>}>>, <<"b">> >>,
        << <<"b">>, <<"lit", {<<"f","l","u">>}>>, <<"b">> >>,
        << <<"b">>, <<"lit", {<<"a","l","l","e","r","g","y">>}>>, <<"b">> >>,
        << <<"b">>, <<"lit", {<<"p","a","i","n">>}>>, <<"cls", "s", 0, -1>>,
           <<"lit", {<<"r","e","l","i","e","f">>}>>, <<"b">> >>,
        << <<"b">>, <<"lit", {<<"a","n","t","a","c","i","d">>}>>, <<"b">> >>,
        << <<"b">>, <<"lit", {<<"l","a","x","a","t","i","v","e">>}>>, <<"b">> >>,
        \* /\b(blood\s*pressure|diabetes|insulin|heart|cholesterol)\b/
        << <<"b">>, <<"lit", {<<"b","l","o","o","d">>}>>, <<"cls", "s", 0, -1>>,
           <<"lit", {<<"p","r","e","s","s","u","r","e">>}>>, <<"b">> >>,
        << <<"b">>, <<"lit", {<<"d","i","a","b","e","t","e","s">>}>>, <<"b">> >>,
        << <<"b">>, <<"lit", {<<"i","n","s","u","l","i","n">>}>>, <<"b">> >>,
        << <<"b">>, <<"lit", {<<"h","e","a","r","t">>}>>, <<"b">> >>,
        << <<"b">>, <<"lit", {<<"c","h","o","l","e","s","t","e","r","o","l">>}>>, <<"b">> >> >> >>,
    << "babyPet", <<
        \* /\b(diaper|wipe|baby\s*(food|formula|oil|powder|lotion))\b/
        << <<"b">>, <<"lit", {<<"d","i","a","p","e","r">>}>>, <<"b">> >>,
        << <<"b">>, <<"lit", {<<"w","i","p","e">>}>>, <<"b">> >>,
        << <<"b">>, <<"lit", {<<"b","a","b","y">>}>>, <<"cls", "s", 0, -1>>,
           <<"lit", {<<"f","o","o","d">>, <<"f","o","r","m","u","l","a">>, <<"l","o","t","i","o","n">>, <<"o","i","l">>, <<"p","o","w","d","e","r">>}>>,
           <<"b">> >>,
        \* /\b(cat|dog|pet)\s*(food|treat|toy|litter|collar|leash)\b/
        << <<"b">>, <<"lit", {<<"c","a","t">>, <<"d","o","g">>, <<"p","e","t">>}>>,
           <<"cls", "s", 0, -1>>,
           <<"lit", {<<"c","o","l","l","a","r">>, <<"f","o","o","d">>, <<"l","e","a","s","h">>, <<"l","i","t","t","e","r">>, <<"t","o","y">>, <<"t","r","e","a","t">>}>>,
           <<"b">> >>,
        \* /\b(purina|pedigree|friskies|meow\s*mix|iams|whiskas)\b/
        << <<"b">>, <<"lit", {<<"p","u","r","i","n","a">>}>>, <<"b">> >>,
        << <<"b">>, <<"lit", {<<"p","e","d","i","g","r","e","e">>}>>, <<"b">> >>,
        << <<"b">>, <<"lit", {<<"f","r","i","s","k","i","e","s">>}>>, <<"b">> >>,
        << <<"b">>, <<"lit", {<<"m","e","o","w">>}>>, <<"cls", "s", 0, -1>>,
           <<"lit", {<<"m","i","x">>}>>, <<"b">> >>,
        << <<"b">>, <<"lit", {<<"i","a","m","s">>}>>, <<"b">> >>,
        << <<"b">>, <<"lit", {<<"w","h","i","s","k","a","s">>}>>, <<"b">> >> >> >>,
    << "nonEdible", <<
        \* /\b(magazine|newspaper|book|greeting\s*card|gift\s*card|phone\s*card)\b/
        << <<"b">>, <<"lit", {<<"m","a","g","a","z","i","n","e">>}>>, <<"b">> >>,
        << <<"b">>, <<"lit", {<<"n","e","w","s","p","a","p","e","r">>}>>, <<"b">> >>,
        << <<"b">>, <<"lit", {<<"b","o","o","k">>}>>, <<"b">> >>,
        << <<"b">>, <<"lit", {<<"g","r","e","e","t","i","n","g">>}>>, <<"cls", "s", 0, -1>>,
           <<"lit", {<<"c","a","r","d">>}>>, <<"b">> >>,
        << <<"b">>, <<"lit", {<<"g","i","f","t">>}>>, <<"cls", "s", 0, -1>>,
           <<"lit", {<<"c","a","r","d">>}>>, <<"b">> >>,
        << <<"b">>, <<"lit", {<<"p","h","o","n","e">>}>>, <<"cls", "s", 0, -1>>,
           <<"lit", {<<"c","a","r","d">>}>>, <<"b">> >>,
        \* /\b(lottery|scratch|ticket|cigarette|tobacco|vape|electronic)\b/
        << <<"b">>,
           <<"lit", {<<"c","i","g","a","r","e","t","t","e">>, <<"e","l","e","c","t","r","o","n","i","c">>, <<"l","o","t","t","e","r","y">>, <<"s","c","r","a","t","c","h">>, <<"t","i","c","k","e","t">>, <<"t","o","b","a","c","c","o">>, <<"v","a","p","e">>}>>,
           <<"b">> >>,
        \* /\b(flower|plant|garden|fertilizer|mulch|seeds)\b/
        << <<"b">>,
           <<"lit", {<<"f","e","r","t","i","l","i","z","e","r">>, <<"f","l","o","w","e","r">>, <<"g","a","r","d","e","n">>, <<"m","u","l","c","h">>, <<"p","l","a","n","t">>, <<"s","e","e","d","s">>}>>,
           <<"b">> >> >> >>
    >>

\* nonFoodBrands: category and brand names, in source order
nonFoodBrands == <<
    << "personalCare",
       { <<"d","o","v","e">>, <<"o","l","a","y">>,
         <<"h","e","a","d"," ","s","h","o","u","l","d","e","r","s">>,
         <<"p","a","n","t","e","n","e">>,
         <<"h","e","r","b","a","l"," ","e","s","s","e","n","c","e","s">>,
         <<"a","u","s","s","i","e">>, <<"t","r","e","s","e","m","m","e">>,
         <<"c","o","l","g","a","t","e">>, <<"c","r","e","s","t">>, <<"o","r","a","l","-","b">>,
         <<"l","i","s","t","e","r","i","n","e">>, <<"s","c","o","p","e">>,
         <<"a","q","u","a","f","r","e","s","h">>, <<"g","i","l","l","e","t","t","e">>,
         <<"s","c","h","i","c","k">>, <<"v","e","n","u","s">>,
         <<"o","l","d"," ","s","p","i","c","e">>, <<"a","x","e">>, <<"d","e","g","r","e","e">>,
         <<"s","e","c","r","e","t">>, <<"c","o","v","e","r","g","i","r","l">>,
         <<"m","a","y","b","e","l","l","i","n","e">>, <<"r","e","v","l","o","n">>,
         <<"l","o","r","e","a","l">>, <<"n","e","u","t","r","o","g","e","n","a">>,
         <<"c","e","t","a","p","h","i","l">> } >>,
    << "household",
       { <<"t","i","d","e">>, <<"d","o","w","n","y">>, <<"g","a","i","n">>,
         <<"c","a","s","c","a","d","e">>, <<"f","i","n","i","s","h">>, <<"d","a","w","n">>,
         <<"j","o","y">>, <<"l","y","s","o","l">>, <<"c","l","o","r","o","x">>,
         <<"w","i","n","d","e","x">>, <<"f","e","b","r","e","z","e">>, <<"g","l","a","d","e">>,
         <<"a","i","r"," ","w","i","c","k">>, <<"c","h","a","r","m","i","n">>,
         <<"b","o","u","n","t","y">>, <<"s","c","o","t","t">>, <<"k","l","e","e","n","e","x">>,
         <<"p","u","f","f","s">>, <<"a","n","g","e","l"," ","s","o","f","t">>,
         <<"g","l","a","d">>, <<"h","e","f","t","y">>, <<"z","i","p","l","o","c">>,
         <<"r","e","y","n","o","l","d","s">>, <<"s","a","r","a","n">> } >>,
    << "pharmacy",
       { <<"t","y","l","e","n","o","l">>, <<"a","d","v","i","l">>, <<"a","l","e","v","e">>,
         <<"m","o","t","r","i","n">>, <<"b","a","y","e","r">>,
         <<"e","x","c","e","d","r","i","n">>, <<"b","e","n","a","d","r","y","l">>,
         <<"c","l","a","r","i","t","i","n">>, <<"z","y","r","t","e","c">>,
         <<"a","l","l","e","g","r","a">>, <<"s","u","d","a","f","e","d">>,
         <<"r","o","b","i","t","u","s","s","i","n">>, <<"m","u","c","i","n","e","x">>,
         <<"d","a","y","q","u","i","l">>, <<"n","y","q","u","i","l">>, <<"p","e","p","t","o">>,
         <<"t","u","m","s">>, <<"c","e","n","t","r","u","m">>,
         <<"n","a","t","u","r","e"," ","m","a","d","e">>,
         <<"o","n","e"," ","a"," ","d","a","y">>,
         <<"f","l","i","n","t","s","t","o","n","e","s">> } >>,
    << "babyPet",
       { <<"p","a","m","p","e","r","s">>, <<"h","u","g","g","i","e","s">>, <<"l","u","v","s">>,
         <<"h","o","n","e","s","t">>,
         <<"s","e","v","e","n","t","h"," ","g","e","n","e","r","a","t","i","o","n">>,
         <<"s","i","m","i","l","a","c">>, <<"e","n","f","a","m","i","l">>,
         <<"g","e","r","b","e","r">>, <<"e","a","r","t","h"," ","b","e","s","t">>,
         <<"p","u","r","i","n","a">>, <<"p","e","d","i","g","r","e","e">>,
         <<"f","r","i","s","k","i","e","s">>, <<"m","e","o","w"," ","m","i","x">>,
         <<"i","a","m","s">>, <<"w","h","i","s","k","a","s">>,
         <<"b","l","u","e"," ","b","u","f","f","a","l","o">>, <<"h","i","l","l","s">>,
         <<"r","o","y","a","l"," ","c","a","n","i","n">>, <<"w","e","l","l","n","e","s","s">> } >>
    >>

\* analyzeReceiptContext(items, storeName).get(index) || 0, the items given
\* by their prices; index counts from 0
contextScore(prices, storeName, index) ==
    LET price == prices[index + 1]
        positionFromEnd == Len(prices) - index
        pharmacy == HasAny(storeName, { <<"P","H","A","R","M","A","C","Y">>, <<"C","V","S">>, <<"W","A","L","G","R","E","E","N","S">> })
    IN  IF index < 0 \/ index >= Len(prices) THEN 0
        ELSE (IF price > 10000 THEN 80 ELSE IF price > 5000 THEN 40 ELSE 0)
           + (IF price % 100 = 0 /\ price >= 2000 THEN 30 ELSE 0)
           + (IF price < 0 THEN 90 ELSE 0)
           + (IF positionFromEnd <= 3 /\ price > 2000 THEN 20 ELSE 0)
           + (IF pharmacy THEN 10 ELSE 0)

\* mutation: 'hide' from 0.8 up
actionFor_hideAt80(confidence) ==
    IF confidence >= 80 THEN "hide"
    ELSE IF confidence >= 60 THEN "review"
    ELSE "keep"

\* the suggested action for a confidence
actionFor(confidence) ==
    IF confidence >= 85 THEN "hide"
    ELSE IF confidence >= 60 THEN "review"
    ELSE "keep"

\* a call without context, and one with allItems (as prices) and itemIndex
NoContext == [given |-> FALSE, storeName |-> <<>>, allItems |-> <<>>, itemIndex |-> 0]
Context(storeName, prices, index) ==
    [given |-> TRUE, storeName |-> storeName, allItems |-> prices, itemIndex |-> index]

\* detectNonFood.  The reason text of the result is left out.
detectNonFood(itemName, price, context) ==
    LET name == trim(toLowerCase(itemName))
        Max(a, b) == IF a >= b THEN a ELSE b
        \* the last category of a table with a hit, or none
        LastHit(table, Hits(_)) ==
            LET hit == { n \in 1..Len(table) : Hits(table[n][2]) }
            IN  IF hit = {} THEN "none"
                ELSE table[CHOOSE n \in hit : \A m \in hit : m <= n][1]
        FirstHit(table, Hits(_)) ==
            LET hit == { n \in 1..Len(table) : Hits(table[n][2]) }
            IN  IF hit = {} THEN "none"
                ELSE table[CHOOSE n \in hit : \A m \in hit : n <= m][1]
        Matches(patterns) == TestAny(patterns, name)
        Includes(brands) == HasAny(name, brands)
        Early(confidence, category) ==
            [isNonFood |-> TRUE, confidence |-> confidence,
             category |-> category, suggestedAction |-> "hide"]
        Finish(confidence, category) ==
            [isNonFood |-> confidence >= 60, confidence |-> confidence,
             category |-> IF confidence >= 60 THEN category ELSE "other",
             suggestedAction |-> actionFor(confidence)]
        Layer7(confidence, category) ==
            Finish(Max(Max(confidence, IF Len(name) < 3 THEN 70 ELSE 0),
                       IF Test(<< <<"bol">>, <<"cls", "d", 1, -1>>, <<"cls", "az", 0, -1>>,
                               <<"cls", "d", 0, -1>>, <<"eol">> >>, name)
                       THEN 80 ELSE 0),
                   category)
        Layer6(confidence, category) ==
            IF ~price.num THEN Layer7(confidence, category)
            ELSE IF price.n < 0 THEN Early(95, "discount")
            ELSE Layer7(Max(Max(confidence, IF price.n > 10000 THEN 70 ELSE 0),
                            IF price.n >= 5000 /\ price.n % 100 = 0 THEN 60 ELSE 0),
                        IF price.n >= 5000 /\ price.n % 100 = 0 THEN "payment"
                        ELSE category)
        Layer5(confidence, category) ==
            Layer6(IF context.given
                   THEN Max(confidence,
                            contextScore(context.allItems, context.storeName,
                                         context.itemIndex))
                   ELSE confidence,
                   category)
        Layer4(confidence, category, brand) ==
            Layer5(IF brand # "none" THEN Max(confidence, 80) ELSE confidence,
                   IF brand # "none" THEN brand ELSE category)
        Layer3(likely) ==
            Layer4(IF likely # "none" THEN 85 ELSE 0,
                   IF likely # "none" THEN likely ELSE "other",
                   LastHit(nonFoodBrands, Includes))
        Layer2 ==
            IF Matches(storeServices) THEN Early(90, "service")
            ELSE Layer3(LastHit(likelyNonFood, Matches))
        Layer1(definite) ==
            IF definite # "none" THEN Early(95, definite) ELSE Layer2
    IN  Layer1(FirstHit(definiteNonFood, Matches))


-----------------------------------------------------------------------------
\* Calls of detectNonFood

MaxCtxItems == 2

DetectNames ==
    { <<"O","R","G","A","N","I","C"," ","A","P","P","L","E","S">>,
      <<"S","T","O","R","E"," ","9","1","0">>, <<"S","A","L","E","S"," ","T","A","X">>,
      <<"D","O","V","E"," ","S","O","A","P">>, <<"T","I","D","E"," ","P","O","D","S">>,
      <<"A","B">>, <<"1","2","3","4","5">>, <<" ","M","i","l","k"," ">> }
DetectPrices == { NotNumber, Number(-100), Number(399), Number(5000), Number(15000) }
CtxPrices == { -100, 15000 }
CtxStores == { <<>>, <<"C","V","S">> }
DetectContexts ==
    { NoContext } \cup
    { Context(store, prices, index) :
        store \in CtxStores,
        <<prices, index>> \in { pi \in SeqsUpTo(CtxPrices, MaxCtxItems) \X (0..(MaxCtxItems - 1)) :
                                pi[2] < Len(pi[1]) } }

Detect(itemName, price, context) ==
    /\ arg' = [op |-> "detect", itemName |-> itemName, price |-> price,
               context |-> context]
    /\ ret' = [op |-> "detect", result |-> detectNonFood(itemName, price, context)]
    /\ pc' = "detected"
    /\ UNCHANGED <<STORE_ADDRESS_DATABASE, localStorage, now, saved, tabs>>

NextNonFood ==
    \/ /\ pc = "idle"
       /\ \E itemName \in DetectNames, price \in DetectPrices, context \in DetectContexts :
            Detect(itemName, price, context)
    \/ Return

SpecNonFood == Init /\ [][NextNonFood]_vars

Detected == pc = "detected"

\* C14: a call with a negative price returns isNonFood true, confidence 0.95
\* or more and the action 'hide', whatever the name, store and context
C14_NegativePriceHidden ==
    (Detected /\ arg.price.num /\ arg.price.n < 0)
        => /\ ret.result.isNonFood
           /\ ret.result.confidence >= 95
           /\ ret.result.suggestedAction = "hide"

\* C15: in every result the action is 'hide' exactly from 0.85 up, 'review'
\* exactly from 0.6 up to 0.85, 'keep' exactly below 0.6, and isNonFood holds
\* exactly from 0.6 up
C15_ActionFollowsConfidence ==
    Detected =>
        LET r == ret.result
        IN  /\ (r.suggestedAction = "hide") = (r.confidence >= 85)
            /\ (r.suggestedAction = "review") = (r.confidence >= 60 /\ r.confidence < 85)
            /\ (r.suggestedAction = "keep") = (r.confidence < 60)
            /\ r.isNonFood = (r.confidence >= 60)

\* a result in the 'review' band, next to the early return of a store service
C15_Witness ==
    /\ Detected
    /\ ret.result.suggestedAction = "review"
    /\ ret.result.confidence = 80
    /\ ret.result.isNonFood

\* C16: every confidence detectNonFood returns lies between 0 and 1
C16_ConfidenceInUnitInterval ==
    Detected => (ret.result.confidence >= 0 /\ ret.result.confidence <= 100)


(***************************************************************************)
(* The scan page: isOCRTextGarbled, the recovery receipts, and the two     *)
(* handlers handleAnalyze and handleLiveScanCapture.                       *)
(***************************************************************************)
\* isOCRTextGarbled: the number of extreme indicators in the whole text, of
\* garbled and of valid lines, and of lines.  A pattern with the i flag is
\* written in upper case and tested on the upper-cased line.
garbleCounts(text) ==
    LET extremeGarblingIndicators == <<
            \* /[A-Z]{3,}\s+[A-Z]{3,}\s+[A-Z]{3,}/
            << <<"cls", "AZ", 3, -1>>, <<"cls", "s", 1, -1>>, <<"cls", "AZ", 3, -1>>,
               <<"cls", "s", 1, -1>>, <<"cls", "AZ", 3, -1>> >>,
            \* /\b[A-Z][a-z]{1,2}\s+[A-Z][a-z]{1,2}\s+[A-Z][a-z]{1,2}\s+[A-Z][a-z]{1,2}/
            << <<"b">>, <<"cls", "AZ", 1, 1>>, <<"cls", "lc", 1, 2>>, <<"cls", "s", 1, -1>>,
               <<"cls", "AZ", 1, 1>>, <<"cls", "lc", 1, 2>>, <<"cls", "s", 1, -1>>,
               <<"cls", "AZ", 1, 1>>, <<"cls", "lc", 1, 2>>, <<"cls", "s", 1, -1>>,
               <<"cls", "AZ", 1, 1>>, <<"cls", "lc", 1, 2>> >>,
            \* /^[A-Z\s]+[A-Z]{10,}/
            << <<"bol">>, <<"cls", "AZs", 1, -1>>, <<"cls", "AZ", 10, -1>> >>,
            \* /[A-Z]+[^A-Za-z\s\d]{3,}[A-Z]/
            << <<"cls", "AZ", 1, -1>>, <<"cls", "sym", 3, -1>>, <<"cls", "AZ", 1, 1>> >>,
            \* /\b[BCDFGHJKLMNPQRSTVWXYZ]{5,}\b/
            << <<"b">>, <<"cls", "cons", 5, -1>>, <<"b">> >>,
            \* /^(LLL|RRR|NNN|DDD|TTT|SSS)\s/
            << <<"bol">>,
               <<"lit", {<<"D","D","D">>, <<"L","L","L">>, <<"N","N","N">>, <<"R","R","R">>, <<"S","S","S">>, <<"T","T","T">>}>>,
               <<"cls", "s", 1, 1>> >>,
            \* /[A-Z]{2,}\s+[A-Z]{2,}\s+[A-Z]{2,}\s+[A-Z]{2,}\s+[A-Z]{2,}/
            << <<"cls", "AZ", 2, -1>>, <<"cls", "s", 1, -1>>, <<"cls", "AZ", 2, -1>>,
               <<"cls", "s", 1, -1>>, <<"cls", "AZ", 2, -1>>, <<"cls", "s", 1, -1>>,
               <<"cls", "AZ", 2, -1>>, <<"cls", "s", 1, -1>>, <<"cls", "AZ", 2, -1>> >>
            >>
        validShapes == <<
            \* /^\d+\.\d{2}$/
            << <<"bol">>, <<"cls", "d", 1, -1>>, <<"lit", {<<".">>}>>, <<"cls", "d", 2, 2>>,
               <<"eol">> >>,
            \* /^[A-Z\s]+\s+\d+\.\d{2}$/
            << <<"bol">>, <<"cls", "AZs", 1, -1>>, <<"cls", "s", 1, -1>>,
               <<"cls", "d", 1, -1>>, <<"lit", {<<".">>}>>, <<"cls", "d", 2, 2>>, <<"eol">> >>,
            \* /^(SUBTOTAL|TAX|TOTAL|Order|Sales|Grand)\s+\d+\.\d{2}/
            << <<"bol">>,
               <<"lit", {<<"G","r","a","n","d">>, <<"O","r","d","e","r">>, <<"S","U","B","T","O","T","A","L">>, <<"S","a","l","e","s">>, <<"T","A","X">>, <<"T","O","T","A","L">>}>>,
               <<"cls", "s", 1, -1>>, <<"cls", "d", 1, -1>>, <<"lit", {<<".">>}>>,
               <<"cls", "d", 2, 2>> >>,
            \* /^(Credit|Cash|Change|Payment)\s/
            << <<"bol">>,
               <<"lit", {<<"C","a","s","h">>, <<"C","h","a","n","g","e">>, <<"C","r","e","d","i","t">>, <<"P","a","y","m","e","n","t">>}>>,
               <<"cls", "s", 1, 1>> >>,
            \* /^\d+\.\d{2}\s+lb\s+@/
            << <<"bol">>, <<"cls", "d", 1, -1>>, <<"lit", {<<".">>}>>, <<"cls", "d", 2, 2>>,
               <<"cls", "s", 1, -1>>, <<"lit", {<<"l","b">>}>>, <<"cls", "s", 1, -1>>,
               <<"lit", {<<"@">>}>> >>,
            \* /^Store\s+#?\d+/
            << <<"bol">>, <<"lit", {<<"S","t","o","r","e">>}>>, <<"cls", "s", 1, -1>>,
               <<"lit", {<<>>, <<"#">>}>>, <<"cls", "d", 1, -1>> >>,
            \* /^\d{3,}[\s\-]+[A-Za-z\s]+/
            << <<"bol">>, <<"cls", "d", 3, -1>>, <<"cls", "s-", 1, -1>>,
               <<"cls", "as", 1, -1>> >>,
            \* /^Items:\s+\d+/
            << <<"bol">>, <<"lit", {<<"I","t","e","m","s",":">>}>>, <<"cls", "s", 1, -1>>,
               <<"cls", "d", 1, -1>> >>,
            \* /^[A-Z\s]{5,}\s+\d+\.\d{2}\s*[ST]?$/
            << <<"bol">>, <<"cls", "AZs", 5, -1>>, <<"cls", "s", 1, -1>>,
               <<"cls", "d", 1, -1>>, <<"lit", {<<".">>}>>, <<"cls", "d", 2, 2>>,
               <<"cls", "s", 0, -1>>, <<"lit", {<<>>, <<"S">>, <<"T">>}>>, <<"eol">> >>,
            \* /^\w+\s+\w+\s+\w+\s+\d+\.\d{2}$/
            << <<"bol">>, <<"cls", "w", 1, -1>>, <<"cls", "s", 1, -1>>, <<"cls", "w", 1, -1>>,
               <<"cls", "s", 1, -1>>, <<"cls", "w", 1, -1>>, <<"cls", "s", 1, -1>>,
               <<"cls", "d", 1, -1>>, <<"lit", {<<".">>}>>, <<"cls", "d", 2, 2>>, <<"eol">> >>
            >>
        validShapesI == <<
            \* /^Thank\s+you/i
            << <<"bol">>, <<"lit", {<<"T","H","A","N","K">>}>>, <<"cls", "s", 1, -1>>,
               <<"lit", {<<"Y","O","U">>}>> >>,
            \* /^(SAFEWAY|PUBLIX|KROGER|TARGET|WALMART|WHOLE\s+FOODS|TRADER|COSTCO|SPROUTS)/i
            << <<"bol">>, <<"lit", {<<"S","A","F","E","W","A","Y">>}>> >>,
            << <<"bol">>, <<"lit", {<<"P","U","B","L","I","X">>}>> >>,
            << <<"bol">>, <<"lit", {<<"K","R","O","G","E","R">>}>> >>,
            << <<"bol">>, <<"lit", {<<"T","A","R","G","E","T">>}>> >>,
            << <<"bol">>, <<"lit", {<<"W","A","L","M","A","R","T">>}>> >>,
            << <<"bol">>, <<"lit", {<<"W","H","O","L","E">>}>>, <<"cls", "s", 1, -1>>,
               <<"lit", {<<"F","O","O","D","S">>}>> >>,
            << <<"bol">>, <<"lit", {<<"T","R","A","D","E","R">>}>> >>,
            << <<"bol">>, <<"lit", {<<"C","O","S","T","C","O">>}>> >>,
            << <<"bol">>, <<"lit", {<<"S","P","R","O","U","T","S">>}>> >>,
            \* /^(GROCERY|PRODUCE|REFRIG|FROZEN|BAKED\s+GOODS|GEN\s+MERCHANDISE)/i
            << <<"bol">>, <<"lit", {<<"G","R","O","C","E","R","Y">>}>> >>,
            << <<"bol">>, <<"lit", {<<"P","R","O","D","U","C","E">>}>> >>,
            << <<"bol">>, <<"lit", {<<"R","E","F","R","I","G">>}>> >>,
            << <<"bol">>, <<"lit", {<<"F","R","O","Z","E","N">>}>> >>,
            << <<"bol">>, <<"lit", {<<"B","A","K","E","D">>}>>, <<"cls", "s", 1, -1>>,
               <<"lit", {<<"G","O","O","D","S">>}>> >>,
            << <<"bol">>, <<"lit", {<<"G","E","N">>}>>, <<"cls", "s", 1, -1>>,
               <<"lit", {<<"M","E","R","C","H","A","N","D","I","S","E">>}>> >>
            >>
        garbledShapes == <<
            \* /^[A-Z\s]+[A-Z]{6,}/
            << <<"bol">>, <<"cls", "AZs", 1, -1>>, <<"cls", "AZ", 6, -1>> >>,
            \* /\b[a-zA-Z]{1,2}\b.*\b[a-zA-Z]{1,2}\b.*\b[a-zA-Z]{1,2}\b.*\b[a-zA-Z]{1,2}\b/
            << <<"b">>, <<"cls", "az", 1, 2>>, <<"b">>, <<"cls", "any", 0, -1>>, <<"b">>,
               <<"cls", "az", 1, 2>>, <<"b">>, <<"cls", "any", 0, -1>>, <<"b">>,
               <<"cls", "az", 1, 2>>, <<"b">>, <<"cls", "any", 0, -1>>, <<"b">>,
               <<"cls", "az", 1, 2>>, <<"b">> >>,
            \* /[A-Z]+[^A-Za-z\s\d]{2,}/
            << <<"cls", "AZ", 1, -1>>, <<"cls", "sym", 2, -1>> >>,
            \* /\b[A-Z][a-z]{1,2}\s+[A-Z][a-z]{1,2}\s+[A-Z][a-z]{1,2}/
            << <<"b">>, <<"cls", "AZ", 1, 1>>, <<"cls", "lc", 1, 2>>, <<"cls", "s", 1, -1>>,
               <<"cls", "AZ", 1, 1>>, <<"cls", "lc", 1, 2>>, <<"cls", "s", 1, -1>>,
               <<"cls", "AZ", 1, 1>>, <<"cls", "lc", 1, 2>> >>,
            \* /[BCDFGHJKLMNPQRSTVWXYZ]{4,}/
            << <<"cls", "cons", 4, -1>> >>,
            \* /^(LLL|RRR|NNN|DDD|TTT|SSS|MMM|PPP)\s/
            << <<"bol">>,
               <<"lit", {<<"D","D","D">>, <<"L","L","L">>, <<"M","M","M">>, <<"N","N","N">>, <<"P","P","P">>, <<"R","R","R">>, <<"S","S","S">>, <<"T","T","T">>}>>,
               <<"cls", "s", 1, 1>> >>,
            \* /\b(WRC|TENA|RETRANRAN|VEATE|NWN|BERR|RETR|LER|SELLER)\b/
            << <<"b">>,
               <<"lit", {<<"B","E","R","R">>, <<"L","E","R">>, <<"N","W","N">>, <<"R","E","T","R">>, <<"R","E","T","R","A","N","R","A","N">>, <<"S","E","L","L","E","R">>, <<"T","E","N","A">>, <<"V","E","A","T","E">>, <<"W","R","C">>}>>,
               <<"b">> >>
            >>
        vowel ==
            \* /[aeiouAEIOU]/
            << <<"lit", {<<"A">>, <<"E">>, <<"I">>, <<"O">>, <<"U">>, <<"a">>, <<"e">>, <<"i">>, <<"o">>, <<"u">>}>> >>
        letters4 ==
            \* /[A-Za-z]{4,}/
            << <<"cls", "az", 4, -1>> >>
        leadingDigits ==
            \* /^\d+/
            << <<"bol">>, <<"cls", "d", 1, -1>> >>
        noLetters ==
            \* /^[^A-Za-z]+$/
            << <<"bol">>, <<"cls", "nl", 1, -1>>, <<"eol">> >>
        upperOnly ==
            \* /^[A-Z\s]+$/
            << <<"bol">>, <<"cls", "AZs", 1, -1>>, <<"eol">> >>
        knownWord ==
            \* /\b(FRESH|ORGANIC|FROZEN|BREAD|MILK|EGGS|CHEESE|MEAT|CHICKEN|BEEF|APPLE|BANANA|POTATO|CARROT|TOMATO|LETTUCE|PASTA|RICE|BUTTER|JUICE|SOUP|CEREAL|YOGURT|SAFEWAY|PUBLIX|KROGER|MUSTARD|BUTTER|LIME|LASTING|MERCHANDISE|TOOTHPASTE|POTATOES)\b/
            << <<"b">>,
               <<"lit", {<<"A","P","P","L","E">>, <<"B","A","N","A","N","A">>, <<"B","E","E","F">>, <<"B","R","E","A","D">>, <<"B","U","T","T","E","R">>, <<"C","A","R","R","O","T">>, <<"C","E","R","E","A","L">>, <<"C","H","E","E","S","E">>, <<"C","H","I","C","K","E","N">>, <<"E","G","G","S">>, <<"F","R","E","S","H">>, <<"F","R","O","Z","E","N">>, <<"J","U","I","C","E">>, <<"K","R","O","G","E","R">>, <<"L","A","S","T","I","N","G">>, <<"L","E","T","T","U","C","E">>, <<"L","I","M","E">>, <<"M","E","A","T">>, <<"M","E","R","C","H","A","N","D","I","S","E">>, <<"M","I","L","K">>, <<"M","U","S","T","A","R","D">>, <<"O","R","G","A","N","I","C">>, <<"P","A","S","T","A">>, <<"P","O","T","A","T","O">>, <<"P","O","T","A","T","O","E","S">>, <<"P","U","B","L","I","X">>, <<"R","I","C","E">>, <<"S","A","F","E","W","A","Y">>, <<"S","O","U","P">>, <<"T","O","M","A","T","O">>, <<"T","O","O","T","H","P","A","S","T","E">>, <<"Y","O","G","U","R","T">>}>>,
               <<"b">> >>
        lines == SelectSeq(Split(text, "\n"), LAMBDA l : Len(trim(l)) > 0)
        entireText == [i \in DOMAIN text |-> IF text[i] = "\n" THEN " " ELSE text[i]]
        Min(S) == CHOOSE x \in S : \A y \in S : x <= y
        Max(S) == CHOOSE x \in S : \A y \in S : x >= y
        \* entireText.match(new RegExp(pattern, 'g')).length; for these
        \* patterns the greedy match from a start is the longest one
        RECURSIVE Count(_, _)
        Count(pat, from) ==
            LET starts == { i \in from..(Len(entireText) + 1) :
                              MatchEnds(pat, entireText, 1, i) # {} }
                After(i, end) == 1 + Count(pat, IF end = i THEN end + 1 ELSE end)
                First(i) == After(i, Max(MatchEnds(pat, entireText, 1, i)))
            IN  IF starts = {} THEN 0 ELSE First(Min(starts))
        RECURSIVE Extreme(_)
        Extreme(n) ==
            IF n = 0 THEN 0
            ELSE Count(extremeGarblingIndicators[n], 1) + Extreme(n - 1)
        IsValid(cleanLine) ==
            \/ TestAny(validShapes, cleanLine)
            \/ TestAny(validShapesI, toUpperCase(cleanLine))
        IsGarbled(cleanLine) ==
            \/ TestAny(garbledShapes, cleanLine)
            \/ /\ Len(cleanLine) > 8
               /\ ~Test(vowel, cleanLine)
               /\ Test(letters4, cleanLine)
               /\ ~Test(leadingDigits, cleanLine)
               /\ ~Test(noLetters, cleanLine)
            \/ /\ Len(cleanLine) > 15
               /\ Test(upperOnly, cleanLine)
               /\ ~Test(knownWord, cleanLine)
        \* the lines that are not skipped as very short
        Counted == { k \in 1..Len(lines) : Len(trim(lines[k])) >= 3 }
        Valid == { k \in Counted : IsValid(trim(lines[k])) }
    IN  [extreme |-> Extreme(Len(extremeGarblingIndicators)),
         garbled |-> Cardinality({ k \in Counted \ Valid : IsGarbled(trim(lines[k])) }),
         valid |-> Cardinality(Valid),
         lines |-> Len(lines)]

\* a mutant of isOCRTextGarbled: the garbled lines must exceed 20% of the lines
isOCRTextGarbled_garbled20(text) ==
    LET Decide(c) ==
            \/ c.extreme > 5
            \/ 100 * c.garbled > 20 * c.lines
            \/ 10 * c.valid < c.lines
            \/ c.extreme > 2
    IN  Decide(garbleCounts(text))

isOCRTextGarbled(text) ==
    LET Decide(c) ==
            \/ c.extreme > 5
            \/ 100 * c.garbled > 15 * c.lines
            \/ 10 * c.valid < c.lines
            \/ c.extreme > 2
    IN  Decide(garbleCounts(text))


\* generateStoreSpecificReceipt: the reconstructed receipt of a chain
storeReceipts ==
    [SAFEWAY |-> Join(<<
        <<"S","A","F","E","W","A","Y">>,
        <<"S","t","o","r","e"," ","9","1","0"," ","D","i","r"," ","C","h","r","i","s"," ","B","a","y">>,
        <<"M","a","i","n",":"," ","(","9","2","5",")"," ","3","7","1","-","6","9","6","9">>,
        <<"1","6","0","4"," ","F","i","r","s","t"," ","S","t","r","e","e","t">>,
        <<"L","I","V","E","R","M","O","R","E"," ","C","A"," ","9","4","5","5","0">>,
        <<>>,
        <<"G","R","O","C","E","R","Y">>,
        <<>>,
        <<"G","-","P"," ","M","U","S","T","A","R","D"," "," "," "," "," "," "," "," "," "," "," "," "," "," "," "," "," "," "," "," ","6",".","4","9"," ","S">>,
        <<"T","A","T","E","S"," ","B","A","K","E"," ","S","H","O","P"," ","C","K"," "," "," "," "," "," "," "," "," "," "," "," "," ","4",".","9","9"," ","S">>,
        <<"R","e","g","u","l","a","r"," ","P","r","i","c","e"," "," "," "," "," "," "," "," "," "," "," ","8",".","9","9">>,
        <<"M","e","m","b","e","r"," ","S","a","v","i","n","g","s"," "," "," "," "," "," "," "," "," "," ","4",".","0","0","-">>,
        <<"S","P","I","N","D","R","I","F","T"," ","R","S","P"," ","L","I","M","E"," "," "," "," "," "," "," "," "," "," "," "," "," ","6",".","4","9"," ","B">>,
        <<"C","R","Y"," ","S","F","I","D","K"," ","8"," ","P","K"," ","T","A","X"," "," "," "," "," "," "," "," "," "," "," "," ","6",".","4","9"," ","S">>,
        <<>>,
        <<"G","R","O","C"," ","N","O","N","E","D","I","B","L","E">>,
        <<>>,
        <<"B","O","U","N","C","E"," ","L","A","S","T","I","N","G"," "," "," "," "," "," "," "," "," "," "," "," "," "," "," "," "," ","7",".","9","9"," ","T">>,
        <<"P","U","F","F","S"," ","U","L","T","R","A"," ","3","P","K"," "," "," "," "," "," "," "," "," "," "," "," "," "," "," ","8",".","9","9"," ","T">>,
        <<>>,
        <<"R","E","F","R","I","G","/","F","R","O","Z","E","N">>,
        <<>>,
        <<"L","N","D"," ","O"," ","L","K","S"," ","B","U","T","T","E","R"," "," "," "," "," "," "," "," "," "," "," "," "," "," ","4",".","9","9"," ","S">>,
        <<"R","e","g","u","l","a","r"," ","P","r","i","c","e"," "," "," "," "," "," "," "," "," "," ","5",".","9","9">>,
        <<"M","e","m","b","e","r"," ","S","a","v","i","n","g","s"," "," "," "," "," "," "," "," "," ","1",".","0","0","-">>,
        <<"R","A","Y","S"," ","M","E","X","I","C","A","N"," ","C","R","N"," "," "," "," "," "," "," "," "," "," "," "," "," "," ","5",".","9","9"," ","S">>,
        <<"R","e","g","u","l","a","r"," ","P","r","i","c","e"," "," "," "," "," "," "," "," "," "," ","6",".","4","9">>,
        <<"M","e","m","b","e","r"," ","S","a","v","i","n","g","s"," "," "," "," "," "," "," "," "," ","1",".","5","0","-">>,
        <<"R","A","Y","S"," ","G","L","U","T","E","N"," ","F","R","E","E"," "," "," "," "," "," "," "," "," "," "," "," "," "," ","6",".","9","9"," ","S">>,
        <<"R","e","g","u","l","a","r"," ","P","r","i","c","e"," "," "," "," "," "," "," "," "," "," ","8",".","4","9">>,
        <<"M","e","m","b","e","r"," ","S","a","v","i","n","g","s"," "," "," "," "," "," "," "," "," ","1",".","5","0","-">>,
        <<"P","R","E","C","I","O","U","S"," ","G","A","L","B","A","N","I"," "," "," "," "," "," "," "," "," "," "," "," "," "," ","5",".","9","9"," ","S">>,
        <<"R","e","g","u","l","a","r"," ","P","r","i","c","e"," "," "," "," "," "," "," "," "," "," ","6",".","4","9">>,
        <<"M","e","m","b","e","r"," ","S","a","v","i","n","g","s"," "," "," "," "," "," "," "," "," ","0",".","5","0","-">>,
        <<>>,
        <<"G","E","N"," ","M","E","R","C","H","A","N","D","I","S","E">>,
        <<>>,
        <<"D","O","V","E"," ","S","O","A","P"," ","B","R"," ","C","O","O","L"," "," "," "," "," "," "," "," "," "," "," "," "," ","6",".","4","9"," ","T">>,
        <<"S","I","G"," ","T","O","O","T","H","P","A","S","T","E"," ","S","E","N"," "," "," "," "," "," "," "," "," "," "," "," ","6",".","7","9"," ","T">>,
        <<"S","I","G"," ","M","O","U","T","H","R","I","N","S","E"," ","M","N","T"," "," "," "," "," "," "," "," "," "," "," "," ","7",".","4","9"," ","T">>,
        <<>>,
        <<"B","A","K","E","D"," ","G","O","O","D","S">>,
        <<>>,
        <<"W","H","O","L","E"," ","G","R","A","I","N"," ","B","R","E","A","D"," "," "," "," "," "," "," "," "," "," "," "," "," ","6",".","4","9"," ","S">>,
        <<>>,
        <<"P","R","O","D","U","C","E">>,
        <<>>,
        <<"0",".","5","4"," ","l","b"," ","@"," ","$","1",".","6","9"," ","/","l","b">>,
        <<"W","T"," "," "," "," "," "," ","R","U","S","S","E","T"," ","P","O","T","A","T","O","E","S"," "," "," "," "," "," "," ","0",".","9","1"," ","S">>,
        <<>>,
        <<"M","I","S","C","E","L","L","A","N","E","O","U","S">>,
        <<>>,
        <<"M","R"," "," "," "," "," "," ","2"," ","Q","T","Y"," ","R","C","Y","C","L","B","L","E"," ","B","A"," "," "," "," "," ","0",".","2","0">>,
        <<>>,
        <<"T","A","X"," "," "," "," "," "," "," "," "," "," "," "," "," "," "," "," "," "," "," "," "," "," "," "," "," "," "," ","4",".","5","8">>,
        <<"*","*","*","*"," ","B","A","L","A","N","C","E"," "," "," "," "," "," "," "," "," "," "," "," "," "," "," "," "," ","9","3",".","2","6">>,
        <<>>,
        <<"C","r","e","d","i","t"," ","P","u","r","c","h","a","s","e"," "," "," "," "," "," "," "," ","1","2","/","0","8","/","2","2"," ","1","5",":","1","5">>,
        <<"C","A","R","D"," ","#"," ","*","*","*","*","*","*","*","*"," "," "," "," "," "," "," "," ","W","I","T","H",":">>,
        <<>>,
        <<"P","A","Y","M","E","N","T"," ","A","M","O","U","N","T"," "," "," "," "," "," "," "," "," "," "," "," "," "," "," ","9","3",".","2","6">> >>, "\n"),
     PUBLIX |-> Join(<<
        <<"P","U","B","L","I","X">>,
        <<"W","h","e","r","e"," ","S","h","o","p","p","i","n","g"," ","i","s"," ","a"," ","P","l","e","a","s","u","r","e">>,
        <<>>,
        <<"P","U","B"," ","D","I","C","E","D"," ","T","O","M","A","T","O","E","S"," "," "," "," "," "," "," "," "," "," "," "," "," ","0",".","6","7"," ","F">>,
        <<"P","U","B","L","I","X"," ","T","O","M","/","P","A","S","T","E"," "," "," "," "," "," "," "," "," "," "," "," "," "," "," ","0",".","7","5"," ","F">>,
        <<"P","F"," ","W","/","G"," ","W","H","E","A","T"," ","B","R","E","A","D"," "," "," "," "," "," "," "," "," "," "," "," "," ","4",".","4","9"," ","F">>,
        <<"P","B","X"," ","F","N","C","Y"," ","P","A","R","M"," ","S","H","R","D"," "," "," "," "," "," "," "," "," "," "," "," "," ","3",".","8","9"," ","F">>,
        <<"I","M","P","O","S","S"," ","B","U","R","G"," "," "," "," "," "," "," "," "," "," "," "," "," "," "," "," "," "," "," "," ","7",".","5","9"," ","F">>,
        <<"B","N","L","S"," ","C","H","I","C","K"," ","B","R","E","A","S","T"," "," "," "," "," "," "," "," "," "," "," "," "," ","1","2",".","1","8"," ","F">>,
        <<"P","U","B","L","I","X"," ","F","F"," ","L","T"," ","V","A","N","I","L"," "," "," "," "," "," "," "," "," "," "," "," "," ","2",".","0","0"," ","F">>,
        <<"L","I","M","E","S"," ","P","E","R","S","I","A","N"," "," "," "," "," "," "," "," "," "," "," "," "," "," "," "," "," "," ","1",".","7","4"," ","F">>,
        <<"P","A","C"," ","B","R","O","T","H"," ","C","H","C","K","N"," ","L","S"," "," "," "," "," "," "," "," "," "," "," "," "," ","5",".","9","9"," ","F">>,
        <<"J","I","F"," ","R","D"," ","F","T"," ","C","R","E","A","M","Y"," "," "," "," "," "," "," "," "," "," "," "," "," "," "," ","5",".","7","5"," ","F">>,
        <<"P","U","B","L","I","X"," ","G","R","E","E","N"," ","B","E","A","N","S"," "," "," "," "," "," "," "," "," "," "," "," "," ","0",".","8","9"," ","F">>,
        <<"H","Z"," ","T","O","M","A","T","O"," ","K","E","T","C","H","U","P"," "," "," "," "," "," "," "," "," "," "," "," "," "," ","6",".","3","9"," ","F">>,
        <<"P","E","P","P","E","R","S"," ","G","R","E","E","N"," ","B","E","L","L"," "," "," "," "," "," "," "," "," "," "," "," "," ","2",".","8","4"," ","F">>,
        <<"B","E","L","L"," ","P","E","P","P","E","R","S"," ","R","E","D"," "," "," "," "," "," "," "," "," "," "," "," "," "," "," ","2",".","1","9"," ","F">>,
        <<"O","R","G","A","N","I","C"," ","C","A","R","R","O","T","S"," "," "," "," "," "," "," "," "," "," "," "," "," "," "," "," ","1",".","6","9"," ","F">>,
        <<"B","A","N","A","N","A"," ","S","H","A","L","L","O","T","S"," "," "," "," "," "," "," "," "," "," "," "," "," "," "," "," ","1",".","4","0"," ","F">>,
        <<>>,
        <<"O","r","d","e","r"," ","T","o","t","a","l"," "," "," "," "," "," "," "," "," "," "," "," "," "," "," "," "," "," ","1","0","0",".","0","0">>,
        <<"S","a","l","e","s"," ","T","a","x"," "," "," "," "," "," "," "," "," "," "," "," "," "," "," "," "," "," "," "," "," "," ","0",".","0","0">>,
        <<"G","r","a","n","d"," ","T","o","t","a","l"," "," "," "," "," "," "," "," "," "," "," "," "," "," "," "," "," "," ","1","0","0",".","0","0">>,
        <<"C","r","e","d","i","t"," ","P","a","y","m","e","n","t"," "," "," "," "," "," "," "," "," "," "," "," "," "," "," ","1","0","0",".","0","0">>,
        <<"C","h","a","n","g","e"," "," "," "," "," "," "," "," "," "," "," "," "," "," "," "," "," "," "," "," "," "," "," "," "," ","0",".","0","0">> >>, "\n")]

\* the values of Math.random() in one call of generateUniversalGroceryReceipt,
\* by what they select: the number of items, the catalogue entries in the
\* order they were accepted, their prices and the store name
Draws ==
    { [numItems |-> 15,
       picks |-> [k \in 1..15 |-> ((d[1] + k - 1) % 29) + 1],
       prices |-> [k \in 1..15 |-> d[2]],
       store |-> d[3]] :
        d \in { <<0, 199, 1>>, <<14, 749, 6>> } }

\* the catalogue of generateUniversalGroceryReceipt
universalGroceryItems == <<
    <<"B","A","N","A","N","A","S"," ","F","R","E","S","H">>,
    <<"A","P","P","L","E","S"," ","G","A","L","A">>,
    <<"C","A","R","R","O","T","S"," ","O","R","G","A","N","I","C">>,
    <<"L","E","T","T","U","C","E"," ","R","O","M","A","I","N","E">>,
    <<"T","O","M","A","T","O","E","S"," ","O","N"," ","V","I","N","E">>,
    <<"P","O","T","A","T","O","E","S"," ","R","U","S","S","E","T">>,
    <<"O","N","I","O","N","S"," ","Y","E","L","L","O","W">>,
    <<"B","E","L","L"," ","P","E","P","P","E","R","S">>,
    <<"G","R","O","U","N","D"," ","B","E","E","F"," ","8","5","/","1","5">>,
    <<"C","H","I","C","K","E","N"," ","B","R","E","A","S","T">>,
    <<"M","I","L","K"," ","2","%"," ","G","A","L","L","O","N">>,
    <<"E","G","G","S"," ","L","A","R","G","E"," ","1","2","C","T">>,
    <<"C","H","E","E","S","E"," ","C","H","E","D","D","A","R">>,
    <<"G","R","E","E","K"," ","Y","O","G","U","R","T">>,
    <<"B","U","T","T","E","R"," ","U","N","S","A","L","T","E","D">>,
    <<"B","R","E","A","D"," ","W","H","O","L","E"," ","W","H","E","A","T">>,
    <<"P","A","S","T","A"," ","P","E","N","N","E">>,
    <<"R","I","C","E"," ","B","R","O","W","N">>,
    <<"O","L","I","V","E"," ","O","I","L">>,
    <<"C","A","N","N","E","D"," ","T","O","M","A","T","O","E","S">>,
    <<"B","L","A","C","K"," ","B","E","A","N","S"," ","C","A","N">>,
    <<"P","E","A","N","U","T"," ","B","U","T","T","E","R">>,
    <<"C","E","R","E","A","L"," ","O","A","T","S">>,
    <<"F","R","O","Z","E","N"," ","B","R","O","C","C","O","L","I">>,
    <<"F","R","O","Z","E","N"," ","B","E","R","R","I","E","S">>,
    <<"S","O","U","P"," ","C","H","I","C","K","E","N"," ","N","O","O","D","L","E">>,
    <<"C","R","A","C","K","E","R","S"," ","W","H","O","L","E"," ","G","R","A","I","N">>,
    <<"G","R","A","N","O","L","A"," ","B","A","R","S">>,
    <<"O","R","A","N","G","E"," ","J","U","I","C","E">> >>

\* generateUniversalGroceryReceipt.  Amounts are in cents; the tax is
\* Math.round(subtotal * 0.0875 * 100) / 100.
generateUniversalGroceryReceipt(draw) ==
    LET storeNames == <<
            <<"N","E","I","G","H","B","O","R","H","O","O","D"," ","M","A","R","K","E","T">>,
            <<"F","R","E","S","H"," ","F","O","O","D","S"," ","M","A","R","K","E","T">>,
            <<"V","I","L","L","A","G","E"," ","G","R","O","C","E","R","Y">>,
            <<"C","O","M","M","U","N","I","T","Y"," ","M","A","R","K","E","T">>,
            <<"Q","U","A","L","I","T","Y"," ","F","O","O","D","S">>,
            <<"F","A","M","I","L","Y"," ","M","A","R","K","E","T">> >>
        RECURSIVE Dec(_)
        Dec(n) == IF n < 10 THEN <<Digits[n + 1]>> ELSE Dec(n \div 10) \o <<Digits[(n % 10) + 1]>>
        \* toFixed(2)
        Fixed2(cents) ==
            Dec(cents \div 100) \o <<".">> \o <<Digits[((cents % 100) \div 10) + 1]>>
                \o <<Digits[(cents % 10) + 1]>>
        padEnd(s, n) == s \o [k \in 1..(IF Len(s) < n THEN n - Len(s) ELSE 0) |-> " "]
        selectedItems ==
            [k \in 1..draw.numItems |->
                padEnd(universalGroceryItems[draw.picks[k]], 30) \o <<" ">>
                    \o Fixed2(draw.prices[k])]
        RECURSIVE SumTo(_)
        SumTo(k) == IF k = 0 THEN 0 ELSE draw.prices[k] + SumTo(k - 1)
        Tail3(subtotal, tax) ==
            << <<"S","U","B","T","O","T","A","L"," "," "," "," "," "," "," "," "," "," "," "," "," "," "," "," "," "," "," ">> \o Fixed2(subtotal),
               <<"T","A","X"," "," "," "," "," "," "," "," "," "," "," "," "," "," "," "," "," "," "," "," "," "," "," "," ">> \o Fixed2(tax),
               <<"T","O","T","A","L"," "," "," "," "," "," "," "," "," "," "," "," "," "," "," "," "," "," "," "," "," "," ">> \o Fixed2(subtotal + tax),
               <<>>,
               <<"I","t","e","m","s",":"," ">> \o Dec(draw.numItems),
               <<"T","h","a","n","k"," ","y","o","u"," ","f","o","r"," ","s","h","o","p","p","i","n","g","!">> >>
        Text(subtotal) ==
            Join(<< storeNames[draw.store],
                    <<"Y","o","u","r"," ","L","o","c","a","l"," ","G","r","o","c","e","r","y"," ","S","t","o","r","e">>,
                    <<"1","2","3"," ","M","a","i","n"," ","S","t","r","e","e","t">>,
                    <<"A","n","y","t","o","w","n",","," ","U","S","A"," ","1","2","3","4","5">>,
                    <<>> >>
                 \o selectedItems \o << <<>> >>
                 \o Tail3(subtotal, (subtotal * 875 + 5000) \div 10000), "\n")
    IN  Text(SumTo(draw.numItems))

\* extractTextFromImage from the best OCR result on: the text it returns
extractTextFromImage(text, draw) ==
    LET raw == Split(text, "\n")
        cleanText == Join(SelectSeq([k \in 1..Len(raw) |-> trim(raw[k])],
                                    LAMBDA l : Len(l) > 0), "\n")
        detected ==
            IF HasAny(cleanText, { <<"S","A","F","E","W","A","Y">>, <<"S","t","o","r","e"," ","9","1","0">>, <<"L","I","V","E","R","M","O","R","E">> })
            THEN "SAFEWAY"
            ELSE IF HasAny(cleanText, { <<"P","U","B","L","I","X">>, <<"p","u","B","L","I","X">>, <<"D","I","C","E","D"," ","T","O","I","L","E">> })
            THEN "PUBLIX"
            ELSE ""
        Recover == IF detected = "" THEN generateUniversalGroceryReceipt(draw)
                   ELSE storeReceipts[detected]
    IN  IF isOCRTextGarbled(cleanText) THEN Recover
        ELSE IF Len(cleanText) < 10 THEN Recover
        ELSE cleanText


-----------------------------------------------------------------------------
\* The same image analysed in two tabs of the scan page, by upload
\* (handleAnalyze) or by live scan (handleLiveScanCapture).
\* NEXT_PUBLIC_OPENAI_API_KEY is not set, so parseReceiptWithAI(ocrText) takes
\* its rule-based path; the keyed path is SpecParse.

\* what the OCR engine read: empty, too short, a chain name alone, garbled
\* lines without and with a store fingerprint, and a clean receipt
ScanTexts ==
    { <<>>, <<"a","b">>, <<"P","U","B","L","I","X">>,
      <<"W","R","C"," ","T","E","N","A","\n","R","E","T","R","A","N","R","A","N"," ","V","E","A","T","E","\n","M","I","L","K"," ","3",".","9","9">>,
      <<"S","A","F","E","W","A","Y","\n","W","R","C"," ","T","E","N","A","\n","R","E","T","R","A","N","R","A","N"," ","V","E","A","T","E">>,
      <<"S","A","F","E","W","A","Y","\n","M","I","L","K"," ","3",".","9","9","\n","T","O","T","A","L"," ","3",".","9","9">> }

\* the engine's outcome: a text, or a failure to run at all
ScanOCR == { [ok |-> TRUE, text |-> text] : text \in ScanTexts }
               \cup { [ok |-> FALSE, text |-> <<>>] }

NoReceipt == [storeName |-> <<>>, items |-> <<>>, total |-> 0,
              metadata |-> [storeFormat |-> "none", itemCount |-> 0]]

ScanStart(path, ocr) ==
    [pc |-> "ocr", path |-> path, ocr |-> ocr, ocrText |-> <<>>,
     result |-> NoReceipt, error |-> "none"]

ScanFailed(tab, error) == [tab EXCEPT !.pc = "error", !.error = error]

InitScan ==
    /\ STORE_ADDRESS_DATABASE = InitialLocations
    /\ localStorage = EmptyStorage
    /\ now = 0
    /\ saved = <<>>
    /\ pc = "idle"
    /\ arg = NoCall
    /\ ret = NoCall
    /\ \E path \in {"upload", "live"}, ocr \in ScanOCR :
           tabs = [t \in TabIds |-> ScanStart(path, ocr)]

\* handleAnalyze: await extractTextFromImage(selectedFile) and the length check
ExtractText(t, draw) ==
    /\ tabs[t].pc = "ocr"
    /\ tabs[t].path = "upload"
    /\ LET Checked(ocrText) ==
               IF Len(trim(ocrText)) < 10 THEN ScanFailed(tabs[t], "unreadable")
               ELSE [tabs[t] EXCEPT !.pc = "parse", !.ocrText = ocrText]
       IN  tabs' = [tabs EXCEPT ![t] =
                       IF ~tabs[t].ocr.ok THEN ScanFailed(tabs[t], "ocr")
                       ELSE Checked(extractTextFromImage(tabs[t].ocr.text, draw))]
    /\ UNCHANGED <<STORE_ADDRESS_DATABASE, localStorage, now, saved, pc, arg, ret>>

\* handleLiveScanCapture: await processImageWithOCR(imageBlob) and the length
\* check, which processImageWithOCR has made already
LiveOCR(t) ==
    /\ tabs[t].pc = "ocr"
    /\ tabs[t].path = "live"
    /\ tabs' = [tabs EXCEPT ![t] =
                   IF ~tabs[t].ocr.ok THEN ScanFailed(tabs[t], "ocr")
                   ELSE IF Len(trim(tabs[t].ocr.text)) < 5
                   THEN ScanFailed(tabs[t], "unreadable")
                   ELSE [tabs[t] EXCEPT !.pc = "parse", !.ocrText = tabs[t].ocr.text]]
    /\ UNCHANGED <<STORE_ADDRESS_DATABASE, localStorage, now, saved, pc, arg, ret>>

\* both handlers: await parseReceiptWithAI(ocrText) and the check for items
ScanParse(t) ==
    /\ tabs[t].pc = "parse"
    /\ LET Checked(aiResult) ==
               IF aiResult.items = <<>> THEN ScanFailed(tabs[t], "noItems")
               ELSE [tabs[t] EXCEPT !.pc = "save", !.result = aiResult]
       IN  tabs' = [tabs EXCEPT ![t] = Checked(fallbackParsing(tabs[t].ocrText))]
    /\ UNCHANGED <<STORE_ADDRESS_DATABASE, localStorage, now, saved, pc, arg, ret>>

\* both handlers: await saveReceiptToFirebase(aiResult, ocrText)
SaveReceipt(t, stored) ==
    /\ tabs[t].pc = "save"
    /\ tabs' = [tabs EXCEPT ![t] =
                   IF stored THEN [tabs[t] EXCEPT !.pc = "done"]
                   ELSE ScanFailed(tabs[t], "save")]
    /\ UNCHANGED <<STORE_ADDRESS_DATABASE, localStorage, now, saved, pc, arg, ret>>

NextScan ==
    \E t \in TabIds :
        \/ \E draw \in Draws : ExtractText(t, draw)
        \/ LiveOCR(t)
        \/ ScanParse(t)
        \/ \E stored \in BOOLEAN : SaveReceipt(t, stored)

SpecScan == InitScan /\ [][NextScan]_vars

\* the engine read a text that is empty, too short or garbled
DegradedText(t) ==
    /\ tabs[t].ocr.ok
    /\ \/ Len(trim(tabs[t].ocr.text)) < 10
       \/ isOCRTextGarbled(tabs[t].ocr.text)

\* C17: when the text read is garbled, empty or too short, neither handler
\* reports an error for it, and the parse ends with a receipt that has items
C17_DegradedTextStillParses ==
    \A t \in TabIds :
        DegradedText(t) =>
            /\ tabs[t].error \in {"none", "save"}
            /\ tabs[t].pc \in {"save", "done"} => tabs[t].result.items # <<>>

\* C18: two runs over the same text end with the same store name, the same
\* items in the same order and the same total
C18_SameTextSameReceipt ==
    (\A t \in TabIds : tabs[t].pc \in {"save", "done"})
        => /\ tabs[1].ocr = tabs[2].ocr
           /\ tabs[1].result.storeName = tabs[2].result.storeName
           /\ tabs[1].result.items = tabs[2].result.items
           /\ tabs[1].result.total = tabs[2].result.total


(***************************************************************************)
(* ProductNameCleaner.  Confidence is in thousandths.                      *)
(***************************************************************************)
\* name.replace(pattern, repl) for a pattern with the g flag, from index i;
\* for the patterns used the greedy match from a start is the longest one
RECURSIVE ReplaceAll(_, _, _, _)
ReplaceAll(pat, s, i, repl) ==
    LET Step(ends) ==
            IF ends = {} \/ ends = {i}
            THEN (IF ends = {i} THEN repl ELSE <<>>)
                 \o (IF i > Len(s) THEN <<>> ELSE <<s[i]>> \o ReplaceAll(pat, s, i + 1, repl))
            ELSE repl \o ReplaceAll(pat, s, CHOOSE e \in ends : \A f \in ends : f <= e, repl)
    IN  IF i > Len(s) + 1 THEN <<>> ELSE Step(MatchEnds(pat, s, 1, i))

\* corrections.foodTerms, storeBrands, nationalBrands and measurements in the
\* order Object.entries yields them: wrong (in lower case, for the i flag)
\* and right
wordCorrections == <<
    << <<"c","h","i","k","e","n">>, <<"C","H","I","C","K","E","N">> >>,
    << <<"c","h","i","c","e","n">>, <<"C","H","I","C","K","E","N">> >>,
    << <<"c","h","i","k","n">>, <<"C","H","I","C","K","E","N">> >>,
    << <<"c","h","i","c","k">>, <<"C","H","I","C","K","E","N">> >>,
    << <<"c","h","c","k","n">>, <<"C","H","I","C","K","E","N">> >>,
    << <<"b","n","l","s">>, <<"B","O","N","E","L","E","S","S">> >>,
    << <<"s","k","l","s","s">>, <<"S","K","I","N","L","E","S","S">> >>,
    << <<"g","r","n","d">>, <<"G","R","O","U","N","D">> >>,
    << <<"b","r","s","t">>, <<"B","R","E","A","S","T">> >>,
    << <<"t","h","g","h">>, <<"T","H","I","G","H">> >>,
    << <<"w","g","n","s">>, <<"W","I","N","G","S">> >>,
    << <<"i","m","p","o","s","s">>, <<"I","M","P","O","S","S","I","B","L","E">> >>,
    << <<"b","u","r","g">>, <<"B","U","R","G","E","R">> >>,
    << <<"t","o","m","a","t","o","e">>, <<"T","O","M","A","T","O">> >>,
    << <<"p","o","t","a","t","o","e">>, <<"P","O","T","A","T","O">> >>,
    << <<"o","n","i","o","n">>, <<"O","N","I","O","N","S">> >>,
    << <<"t","o","m">>, <<"T","O","M","A","T","O">> >>,
    << <<"b","r","o","c","o","l","i">>, <<"B","R","O","C","C","O","L","I">> >>,
    << <<"b","r","o","c","o","l","l","i">>, <<"B","R","O","C","C","O","L","I">> >>,
    << <<"c","r","r","o","t">>, <<"C","A","R","R","O","T">> >>,
    << <<"a","v","a","c","a","d","o">>, <<"A","V","O","C","A","D","O">> >>,
    << <<"a","v","a","c","o","d","o">>, <<"A","V","O","C","A","D","O">> >>,
    << <<"a","c","o","c","a","d","o">>, <<"A","V","O","C","A","D","O">> >>,
    << <<"p","e","p","p","e","r","s">>, <<"P","E","P","P","E","R","S">> >>,
    << <<"b","e","l","l">>, <<"B","E","L","L">> >>,
    << <<"c","a","r","r","o","t","s">>, <<"C","A","R","R","O","T","S">> >>,
    << <<"s","h","a","l","l","o","t","s">>, <<"S","H","A","L","L","O","T","S">> >>,
    << <<"s","h","l","l","o","t","s">>, <<"S","H","A","L","L","O","T","S">> >>,
    << <<"s","h","a","l","o","t","s">>, <<"S","H","A","L","L","O","T","S">> >>,
    << <<"p","e","r","s","t","n">>, <<"P","E","R","S","I","A","N">> >>,
    << <<"p","e","r","s","t","a","n">>, <<"P","E","R","S","I","A","N">> >>,
    << <<"m","l","k">>, <<"M","I","L","K">> >>,
    << <<"c","h","z">>, <<"C","H","E","E","S","E">> >>,
    << <<"c","h","s","e">>, <<"C","H","E","E","S","E">> >>,
    << <<"c","h","e","e","s">>, <<"C","H","E","E","S","E">> >>,
    << <<"y","o","g","r","t">>, <<"Y","O","G","U","R","T">> >>,
    << <<"y","o","q","r","t">>, <<"Y","O","G","U","R","T">> >>,
    << <<"y","o","u","g","u","r","t">>, <<"Y","O","G","U","R","T">> >>,
    << <<"b","t","r">>, <<"B","U","T","T","E","R">> >>,
    << <<"c","r","m">>, <<"C","R","E","A","M">> >>,
    << <<"c","r","e","m">>, <<"C","R","E","A","M">> >>,
    << <<"f","f">>, <<"F","A","T"," ","F","R","E","E">> >>,
    << <<"l","t">>, <<"L","I","G","H","T">> >>,
    << <<"v","a","n","i","l">>, <<"V","A","N","I","L","L","A">> >>,
    << <<"v","a","n","i","l","a">>, <<"V","A","N","I","L","L","A">> >>,
    << <<"s","c","e">>, <<"S","A","U","C","E">> >>,
    << <<"s","a","u","g","e">>, <<"S","A","U","C","E">> >>,
    << <<"s","a","u","s","e">>, <<"S","A","U","C","E">> >>,
    << <<"s","a","c","e">>, <<"S","A","U","C","E">> >>,
    << <<"k","e","t","c","h","p">>, <<"K","E","T","C","H","U","P">> >>,
    << <<"k","e","t","c","h","u">>, <<"K","E","T","C","H","U","P">> >>,
    << <<"m","u","s","t","r","d">>, <<"M","U","S","T","A","R","D">> >>,
    << <<"m","a","y","o">>, <<"M","A","Y","O","N","N","A","I","S","E">> >>,
    << <<"m","a","y","o","n">>, <<"M","A","Y","O","N","N","A","I","S","E">> >>,
    << <<"p","a","s","t">>, <<"P","A","S","T","E">> >>,
    << <<"p","a","s","t","e">>, <<"P","A","S","T","E">> >>,
    << <<"b","r","d">>, <<"B","R","E","A","D">> >>,
    << <<"b","r","e","d">>, <<"B","R","E","A","D">> >>,
    << <<"r","c","e">>, <<"R","I","C","E">> >>,
    << <<"r","y","c","e">>, <<"R","I","C","E">> >>,
    << <<"p","s","t">>, <<"P","A","S","T","A">> >>,
    << <<"p","s","t","a">>, <<"P","A","S","T","A">> >>,
    << <<"f","l","r">>, <<"F","L","O","U","R">> >>,
    << <<"f","l","u","r">>, <<"F","L","O","U","R">> >>,
    << <<"w","/","g">>, <<"W","H","O","L","E"," ","G","R","A","I","N">> >>,
    << <<"w","g">>, <<"W","H","O","L","E"," ","G","R","A","I","N">> >>,
    << <<"w","h","e","a","t">>, <<"W","H","E","A","T">> >>,
    << <<"o","r","g","n">>, <<"O","R","G","A","N","I","C">> >>,
    << <<"o","r","g","n","c">>, <<"O","R","G","A","N","I","C">> >>,
    << <<"o","r","g">>, <<"O","R","G","A","N","I","C">> >>,
    << <<"o","r","g","n","i","c">>, <<"O","R","G","A","N","I","C">> >>,
    << <<"f","r","z">>, <<"F","R","O","Z","E","N">> >>,
    << <<"f","r","z","n">>, <<"F","R","O","Z","E","N">> >>,
    << <<"f","r","0","z">>, <<"F","R","O","Z","E","N">> >>,
    << <<"w","h","l">>, <<"W","H","O","L","E">> >>,
    << <<"w","h">>, <<"W","H","I","T","E">> >>,
    << <<"w","h","t">>, <<"W","H","I","T","E">> >>,
    << <<"w","h","t","e">>, <<"W","H","I","T","E">> >>,
    << <<"f","n","c","y">>, <<"F","A","N","C","Y">> >>,
    << <<"p","a","r","m">>, <<"P","A","R","M","E","S","A","N">> >>,
    << <<"s","h","r","d">>, <<"S","H","R","E","D","D","E","D">> >>,
    << <<"r","d">>, <<"R","E","D","U","C","E","D">> >>,
    << <<"f","t">>, <<"F","A","T">> >>,
    << <<"l","s">>, <<"L","O","W"," ","S","O","D","I","U","M">> >>,
    << <<"p","a","c">>, <<"P","A","C","I","F","I","C">> >>,
    << <<"h","z">>, <<"H","E","I","N","Z">> >>,
    << <<"j","i","f">>, <<"J","I","F">> >>,
    << <<"b","r","o","t","h">>, <<"B","R","O","T","H">> >>,
    << <<"c","r","e","a","m","y">>, <<"C","R","E","A","M","Y">> >>,
    << <<"3","6","5">>, <<"3","6","5"," ","E","V","E","R","Y","D","A","Y"," ","V","A","L","U","E">> >>,
    << <<"p","u","b">>, <<>> >>,
    << <<"p","b","x">>, <<>> >>,
    << <<"p","u","b","l","i","x">>, <<>> >>,
    << <<"g","v">>, <<"G","R","E","A","T"," ","V","A","L","U","E">> >>,
    << <<"s","i","g">>, <<"S","I","G","N","A","T","U","R","E">> >>,
    << <<"m","m">>, <<"M","A","R","K","E","T","S","I","D","E">> >>,
    << <<"e","q">>, <<"E","Q","U","A","T","E">> >>,
    << <<"p","v">>, <<"P","A","R","E","N","T","'","S"," ","C","H","O","I","C","E">> >>,
    << <<"s","w">>, <<"S","I","M","P","L","Y"," ","W","H","I","T","E">> >>,
    << <<"k","s">>, <<"K","I","R","K","L","A","N","D"," ","S","I","G","N","A","T","U","R","E">> >>,
    << <<"t","j">>, <<"T","R","A","D","E","R"," ","J","O","E","'","S">> >>,
    << <<"m","a","h","a","t","h","a">>, <<"M","A","H","A","T","M","A">> >>,
    << <<"m","a","h","a","t","a","m","a">>, <<"M","A","H","A","T","M","A">> >>,
    << <<"j","a","s","n">>, <<"J","A","S","M","I","N","E">> >>,
    << <<"j","a","s","h">>, <<"J","A","S","M","I","N","E">> >>,
    << <<"j","a","s","m","i","n">>, <<"J","A","S","M","I","N","E">> >>,
    << <<"h","d","i","s","i","n">>, <<"H","O","I","S","I","N">> >>,
    << <<"h","o","s","i","n">>, <<"H","O","I","S","I","N">> >>,
    << <<"h","o","y","s","i","n">>, <<"H","O","I","S","I","N">> >>,
    << <<"s","r","i","r","a","c","h","a">>, <<"S","R","I","R","A","C","H","A">> >>,
    << <<"s","i","r","a","c","h","a">>, <<"S","R","I","R","A","C","H","A">> >>,
    << <<"s","i","r","r","a","c","h">>, <<"S","R","I","R","A","C","H","A">> >>,
    << <<"h","u","n","t","s">>, <<"H","U","N","T","'","S">> >>,
    << <<"l","a","y","s">>, <<"L","A","Y","'","S">> >>,
    << <<"c","a","m","p","b","e","l","l","s">>, <<"C","A","M","P","B","E","L","L","'","S">> >>,
    << <<"k","e","l","l","o","g","s">>, <<"K","E","L","L","O","G","G","'","S">> >>,
    << <<"m","c","d","o","n","a","l","d","s">>, <<"M","C","D","O","N","A","L","D","'","S">> >>,
    << <<"o","r","v","i","l","l","e">>, <<"O","R","V","I","L","L","E"," ","R","E","D","E","N","B","A","C","H","E","R">> >>,
    << <<"d","o","r","i","t","o","s">>, <<"D","O","R","I","T","O","S">> >>,
    << <<"c","h","e","e","t","o","s">>, <<"C","H","E","E","T","O","S">> >>,
    << <<"f","r","i","t","o","s">>, <<"F","R","I","T","O","S">> >>,
    << <<"t","o","s","t","i","t","o","s">>, <<"T","O","S","T","I","T","O","S">> >>,
    << <<"l","b">>, <<"P","O","U","N","D">> >>,
    << <<"l","b","s">>, <<"P","O","U","N","D","S">> >>,
    << <<"o","z">>, <<"O","U","N","C","E">> >>,
    << <<"o","u","n","c","s">>, <<"O","U","N","C","E","S">> >>,
    << <<"p","t">>, <<"P","I","N","T">> >>,
    << <<"q","t">>, <<"Q","U","A","R","T">> >>,
    << <<"g","a","l">>, <<"G","A","L","L","O","N">> >>,
    << <<"m","l">>, <<"M","I","L","L","I","L","I","T","E","R">> >>,
    << <<"p","k">>, <<"P","A","C","K">> >>,
    << <<"p","k","g">>, <<"P","A","C","K","A","G","E">> >>,
    << <<"c","t">>, <<"C","O","U","N","T">> >>,
    << <<"p","c">>, <<"P","I","E","C","E">> >>,
    << <<"b","x">>, <<"B","O","X">> >>,
    << <<"b","g">>, <<"B","A","G">> >>,
    << <<"b","t","l">>, <<"B","O","T","T","L","E">> >>,
    << <<"c","a","n">>, <<"C","A","N">> >> >>

\* cleanProductName
cleanProductName(originalName) ==
    LET Word(s, j) == j >= 1 /\ j <= Len(s) /\ InClass(s[j], "w")
        Upper(s, j) == j >= 1 /\ j <= Len(s) /\ InClass(s[j], "AZ")
        \* Step 1: technical codes
        \* /\b\d{12,}[A-Z]*\b/g, /\s+[A-Z]{1,2}$/g, /\b(F|T|E|X|KF|MD|LG|SM|XL|XXL)$/g
        step1 ==
            trim(ReplaceAll(<< <<"b">>, <<"lit", { <<"F">>, <<"T">>, <<"E">>, <<"X">>, <<"K","F">>, <<"M","D">>, <<"L","G">>, <<"S","M">>, <<"X","L">>, <<"X","X","L">> }>>, <<"eol">> >>,
                 trim(ReplaceAll(<< <<"cls", "s", 1, -1>>, <<"cls", "AZ", 1, 2>>, <<"eol">> >>,
                      trim(ReplaceAll(<< <<"b">>, <<"cls", "d", 12, -1>>, <<"cls", "AZ", 0, -1>>,
                                         <<"b">> >>, originalName, 1, <<>>)),
                      1, <<>>)),
                 1, <<>>))
        \* Step 2: characterSubstitutions, each as the set of indices it
        \* matches at and the text after it
        At0(s) == { j \in 1..Len(s) : s[j] = "0" /\ ~Word(s, j - 1) /\ Upper(s, j + 1) }
        At1(s) == { j \in 1..Len(s) : s[j] = "1" /\ ~Word(s, j - 1) /\ Upper(s, j + 1) }
        In0(s) == { j \in 1..Len(s) : s[j] = "0" /\ Upper(s, j - 1) /\ Upper(s, j + 1) }
        In1(s) == { j \in 1..Len(s) : s[j] = "1" /\ Upper(s, j - 1) /\ Upper(s, j + 1) }
        AtVV(s) == { j \in 1..(Len(s) - 1) : s[j] = "V" /\ s[j + 1] = "V" /\ ~Word(s, j - 1) }
        AtU(s) == { j \in 1..(Len(s) - 1) :
                      s[j] = "U" /\ ~Word(s, j - 1) /\ s[j + 1] \in {"A", "E", "I", "O", "U"} }
        Set(s, at, c) == [j \in 1..Len(s) |-> IF j \in at THEN c ELSE s[j]]
        \* [text, confidence] after one substitution
        Subst(r, at, text) == IF at = {} THEN r ELSE <<text, r[2] + 50>>
        S1(r) == Subst(r, At0(r[1]), Set(r[1], At0(r[1]), "O"))
        S2(r) == Subst(r, At1(r[1]), Set(r[1], At1(r[1]), "I"))
        S3(r) == Subst(r, In0(r[1]), Set(r[1], In0(r[1]), "O"))
        S4(r) == Subst(r, In1(r[1]), Set(r[1], In1(r[1]), "I"))
        S5(r) == Subst(r, AtVV(r[1]), ReplaceAll(<< <<"b">>, <<"lit", {<<"V","V">>}>> >>,
                                                 r[1], 1, <<"W">>))
        S6(r) == Subst(r, AtU(r[1]), Set(r[1], AtU(r[1]), "O"))
        \* Step 3: word-level corrections, new RegExp(`\\b${wrong}\\b`, 'gi')
        Has(s, wrong) == \E j \in 1..Len(s) :
                             /\ MatchAt(s, j, wrong)
                             /\ ~Word(s, j - 1)
                             /\ ~Word(s, j + Len(wrong))
        RECURSIVE Words(_, _)
        \* from entry n on: the next entry that matches is applied
        Words(r, n) ==
            LET hits == { m \in n..Len(wordCorrections) : Has(r[1], wordCorrections[m][1]) }
                Apply(m) ==
                    Words(<<ReplaceWord(r[1], 1, wordCorrections[m][1], wordCorrections[m][2]),
                            r[2] + 100>>, m + 1)
            IN  IF hits = {} THEN r ELSE Apply(CHOOSE m \in hits : \A k \in hits : m <= k)
        \* Step 4: special patterns; Step 5: formatting
        Step45(s) ==
            trim(CollapseSpaces(
                ReplaceWord(ReplaceWord(ReplaceWord(ReplaceWord(ReplaceWord(s, 1,
                    <<"t","o","m","/","p","a","s","t","e">>, <<"T","O","M","A","T","O"," ","P","A","S","T","E">>), 1,
                    <<"r","d"," ","f","t">>, <<"R","E","D","U","C","E","D"," ","F","A","T">>), 1,
                    <<"f","f"," ","l","t">>, <<"F","A","T"," ","F","R","E","E"," ","L","I","G","H","T">>), 1,
                    <<"w","/","g"," ","w","h","e","a","t">>, <<"W","H","O","L","E"," ","G","R","A","I","N"," ","W","H","E","A","T">>), 1,
                    <<"f","n","c","y"," ","p","a","r","m"," ","s","h","r","d">>,
                    <<"F","A","N","C","Y"," ","P","A","R","M","E","S","A","N"," ","S","H","R","E","D","D","E","D">>)))
        \* Step 6 and the adjustment of the confidence
        Result(name, confidence) ==
            IF Len(name) < 3 \/ \A j \in 1..Len(name) : InClass(name[j], "d") \/ InClass(name[j], "s")
            THEN [cleanedName |-> <<>>, confidence |-> 0]
            ELSE [cleanedName |-> name,
                  confidence |->
                      LET c == IF 2 * (Len(originalName) - Len(name)) > Len(originalName)
                               THEN (confidence * 7) \div 10 ELSE confidence
                      IN  IF c < 1000 THEN c ELSE 1000]
        Finish(r) == Result(Step45(r[1]), r[2])
    IN  Finish(Words(S6(S5(S4(S3(S2(S1(<<step1, 800>>)))))), 1))

-----------------------------------------------------------------------------
\* Calls of cleanProductName, on a name and on the name it returned

MaxWords == 3

CleanWords == { <<"M","I","L","K">>, <<"M","L","K">>, <<"A">>, <<"X","L">>, <<"D">>, <<"0","Z">> }
CleanNames == { Join(w, " ") : w \in SeqsUpTo(CleanWords, MaxWords) \ {<<>>} }

CleanResult(name) == [op |-> "clean", result |-> cleanProductName(name)]

Clean(name) ==
    /\ pc = "idle"
    /\ arg' = [op |-> "clean", name |-> name]
    /\ ret' = CleanResult(name)
    /\ pc' = "cleaned"
    /\ UNCHANGED <<STORE_ADDRESS_DATABASE, localStorage, now, saved, tabs>>

\* the cleaned name is cleaned again
CleanAgain ==
    /\ pc = "cleaned"
    /\ ret.result.cleanedName # <<>>
    /\ arg' = [op |-> "clean", name |-> ret.result.cleanedName]
    /\ ret' = CleanResult(ret.result.cleanedName)
    /\ pc' = "cleaned"
    /\ UNCHANGED <<STORE_ADDRESS_DATABASE, localStorage, now, saved, tabs>>

NextClean ==
    \/ \E name \in CleanNames : Clean(name)
    \/ CleanAgain
    \/ Return

SpecClean == Init /\ [][NextClean]_vars

\* C19: cleaning a name that cleanProductName returned leaves its text as it
\* is: cleaning twice gives the name that cleaning once gives
C19_CleanedNameIsFixedPoint ==
    [][(pc = "cleaned" /\ pc' = "cleaned") => ret'.result.cleanedName = ret.result.cleanedName]_vars


(***************************************************************************)
(* storeAddressLookup.ts.  A confidence is the exact fraction              *)
(* << numerator, denominator >> of the quotient the code computes.         *)
(***************************************************************************)
\* levenshteinDistance: matrix[i + 1][j + 1] is the code's matrix[i][j]; the
\* rows are filled in order, and in a row the cell filled next is the one
\* at j = Len(row)
levenshteinDistance(str1, str2) ==
    LET n == Len(str1)
        Min3(a, b, c) == IF a <= b /\ a <= c THEN a ELSE IF b <= c THEN b ELSE c
        RECURSIVE Cells(_, _, _)
        Cells(i, prev, row) ==
            IF Len(row) > n THEN row
            ELSE LET j == Len(row)
                 IN  Cells(i, prev,
                           Append(row, IF str2[i] = str1[j] THEN prev[j]
                                       ELSE Min3(prev[j] + 1, row[j] + 1, prev[j + 1] + 1)))
        RECURSIVE Rows(_)
        Rows(matrix) ==
            IF Len(matrix) > Len(str2) THEN matrix[Len(str2) + 1][n + 1]
            ELSE LET i == Len(matrix)
                 IN  Rows(Append(matrix, Cells(i, matrix[i], <<i>>)))
    IN  Rows(<< [j \in 1..(n + 1) |-> j - 1] >>)

calculateStringSimilarity(str1, str2) ==
    LET longer == IF Len(str1) > Len(str2) THEN str1 ELSE str2
        shorter == IF Len(str1) > Len(str2) THEN str2 ELSE str1
    IN  IF Len(longer) = 0 THEN <<1, 1>>
        ELSE <<Len(longer) - levenshteinDistance(longer, shorter), Len(longer)>>

\* upper case; /\b(STREET|ST|...|DR)\b/g removes every maximal run of \w
\* characters that is one of the suffix words; then every character that is
\* neither \w nor \s goes, runs of whitespace collapse, and the ends are trimmed
normalizeAddress(address) ==
    LET suffixes == {<<"S","T","R","E","E","T">>, <<"S","T">>, <<"R","O","A","D">>, <<"R","D">>, <<"A","V","E","N","U","E">>, <<"A","V","E">>, <<"B","O","U","L","E","V","A","R","D">>, <<"B","L","V","D">>, <<"D","R","I","V","E">>, <<"D","R">>}
        RECURSIVE Bare(_, _)
        Bare(s, i) ==
            IF i > Len(s) THEN <<>>
            ELSE IF ~InClass(s[i], "w") THEN <<s[i]>> \o Bare(s, i + 1)
            ELSE LET to == Skip(s, i, "w")
                 IN  (IF SubSeq(s, i, to - 1) \in suffixes THEN <<>> ELSE SubSeq(s, i, to - 1))
                     \o Bare(s, to)
    IN  trim(CollapseSpaces(SelectSeq(Bare(toUpperCase(address), 1),
                                      LAMBDA c : InClass(c, "w") \/ InClass(c, "s"))))

normalizeString(str) ==
    trim(SelectSeq(toUpperCase(str), LAMBDA c : InClass(c, "w")))

\* str.replace(/\D/g, '')
digitsOf(str) == SelectSeq(str, LAMBDA c : InClass(c, "d"))

\* a mutant of calculateAddressConfidence: the score is divided by 100
\* whatever fields are present
calculateAddressConfidence_over100(extracted, known) ==
    LET street == extracted.street # <<>> /\ known.address # <<>>
        exact == (IF extracted.city # <<>> /\ normalizeString(extracted.city) = normalizeString(known.city)
                  THEN 20 ELSE 0)
                 + (IF extracted.state # <<>> /\ toUpperCase(extracted.state) = toUpperCase(known.state)
                    THEN 15 ELSE 0)
                 + (IF extracted.zip # <<>> /\ normalizeString(extracted.zip) = normalizeString(known.zip)
                    THEN 15 ELSE 0)
                 + (IF extracted.storeNumber # <<>> /\ extracted.storeNumber = known.storeNumber
                    THEN 10 ELSE 0)
                 + (IF extracted.phone # <<>> /\ known.phone # <<>>
                       /\ digitsOf(extracted.phone) = digitsOf(known.phone)
                    THEN 5 ELSE 0)
        Quotient(sim) == <<sim[1] * 40 + exact * sim[2], 100 * sim[2]>>
    IN  IF street
        THEN Quotient(calculateStringSimilarity(normalizeAddress(extracted.street),
                                                normalizeAddress(known.address)))
        ELSE <<exact, 100>>

calculateAddressConfidence(extracted, known) ==
    LET street == extracted.street # <<>> /\ known.address # <<>>
        city == extracted.city # <<>> /\ known.city # <<>>
        state == extracted.state # <<>> /\ known.state # <<>>
        zip == extracted.zip # <<>> /\ known.zip # <<>>
        storeNumber == extracted.storeNumber # <<>> /\ known.storeNumber # <<>>
        phone == extracted.phone # <<>> /\ known.phone # <<>>
        maxScore == (IF street THEN 40 ELSE 0) + (IF city THEN 20 ELSE 0)
                    + (IF state THEN 15 ELSE 0) + (IF zip THEN 15 ELSE 0)
                    + (IF storeNumber THEN 10 ELSE 0) + (IF phone THEN 5 ELSE 0)
        exact == (IF city /\ normalizeString(extracted.city) = normalizeString(known.city)
                  THEN 20 ELSE 0)
                 + (IF state /\ toUpperCase(extracted.state) = toUpperCase(known.state)
                    THEN 15 ELSE 0)
                 + (IF zip /\ normalizeString(extracted.zip) = normalizeString(known.zip)
                    THEN 15 ELSE 0)
                 + (IF storeNumber /\ extracted.storeNumber = known.storeNumber
                    THEN 10 ELSE 0)
                 + (IF phone /\ digitsOf(extracted.phone) = digitsOf(known.phone)
                    THEN 5 ELSE 0)
        \* score = streetSimilarity * 40 + exact, over maxScore
        Quotient(sim) == <<sim[1] * 40 + exact * sim[2], maxScore * sim[2]>>
    IN  IF maxScore = 0 THEN <<0, 1>>
        ELSE IF street
        THEN Quotient(calculateStringSimilarity(normalizeAddress(extracted.street),
                                                normalizeAddress(known.address)))
        ELSE <<exact, maxScore>>

\* a > b for two confidences
Above(a, b) == a[1] * b[2] > b[1] * a[2]

\* every location of every chain, in the order the two loops visit them
RECURSIVE AllLocations(_)
AllLocations(database) ==
    IF database = <<>> THEN <<>>
    ELSE database[1].locations \o AllLocations(Tail(database))

\* lookupStoreByAddress returns null
NoStore == [null |-> TRUE]

\* the variant that takes every location above the threshold, the last one winning
lookupStoreByAddress_lastAbove(extractedAddress, database) ==
    LET RECURSIVE Visit(_, _, _)
        Visit(locations, bestMatch, highestConfidence) ==
            IF locations = <<>> THEN bestMatch
            ELSE LET Take(location, confidence) ==
                         IF Above(confidence, <<6, 10>>)
                         THEN Visit(Tail(locations),
                                    [null |-> FALSE,
                                     storeName |-> location.storeName,
                                     confidence |-> confidence,
                                     matchedAddress |-> location.address \o <<",", " ">>
                                         \o location.city \o <<",", " ">> \o location.state,
                                     storeDetails |-> location],
                                    confidence)
                         ELSE Visit(Tail(locations), bestMatch, highestConfidence)
                 IN  Take(locations[1],
                          calculateAddressConfidence(extractedAddress, locations[1]))
    IN  Visit(AllLocations(database), NoStore, <<0, 1>>)

lookupStoreByAddress(extractedAddress, database) ==
    LET RECURSIVE Visit(_, _, _)
        Visit(locations, bestMatch, highestConfidence) ==
            IF locations = <<>> THEN bestMatch
            ELSE LET Take(location, confidence) ==
                         IF Above(confidence, highestConfidence) /\ Above(confidence, <<6, 10>>)
                         THEN Visit(Tail(locations),
                                    [null |-> FALSE,
                                     storeName |-> location.storeName,
                                     confidence |-> confidence,
                                     matchedAddress |-> location.address \o <<",", " ">>
                                         \o location.city \o <<",", " ">> \o location.state,
                                     storeDetails |-> location],
                                    confidence)
                         ELSE Visit(Tail(locations), bestMatch, highestConfidence)
                 IN  Take(locations[1],
                          calculateAddressConfidence(extractedAddress, locations[1]))
    IN  Visit(AllLocations(database), NoStore, <<0, 1>>)

\* addStoreLocationToDatabase: a new chain gets its list at the end; the
\* location is pushed unless the chain has one with its address and city
addStoreLocationToDatabase(database, storeLocation) ==
    LET known == \E k \in DOMAIN database : database[k].chain = storeLocation.storeName
        withChain == IF known THEN database
                     ELSE Append(database, [chain |-> storeLocation.storeName,
                                            locations |-> <<>>])
        k == CHOOSE k \in DOMAIN withChain : withChain[k].chain = storeLocation.storeName
        exists == \E i \in DOMAIN withChain[k].locations :
                      /\ withChain[k].locations[i].address = storeLocation.address
                      /\ withChain[k].locations[i].city = storeLocation.city
    IN  IF exists THEN withChain
        ELSE [withChain EXCEPT ![k].locations = Append(@, storeLocation)]


-----------------------------------------------------------------------------
\* Calls of addStoreLocationToDatabase and detectStoreByAddress

\* locations a caller adds: a second store of a known chain one street from
\* the first, and a store of a chain the database does not have
NewLocations == {
    [storeName |-> <<"S","A","F","E","W","A","Y">>, address |-> <<"1","5","5","4"," ","F","I","R","S","T"," ","A","V","E","N","U","E">>,
     city |-> <<"L","I","V","E","R","M","O","R","E">>, state |-> <<"C","A">>,
     zip |-> <<"9","4","5","5","0">>, storeNumber |-> <<"9","1","1">>,
     phone |-> <<>>],
    [storeName |-> <<"K","R","O","G","E","R">>, address |-> <<"1","5","5","4"," ","F","I","R","S","T"," ","S","T","R","E","E","T">>,
     city |-> <<"D","U","B","L","I","N">>, state |-> <<"C","A">>,
     zip |-> <<"9","4","5","6","8">>, storeNumber |-> <<"1","2">>,
     phone |-> <<>>] }

\* what extractAddressFromReceipt returns; a component it did not find is the
\* empty string (undefined and '' are both falsy)
ExtractedAddresses ==
    [street : {<<>>, <<"1","5","5","4"," ","F","I","R","S","T"," ","S","T","R","E","E","T">>, <<"1","5","5","4"," ","F","i","r","s","t"," ","S","t",".">>, <<"1","5","5","4"," ","F","I","R","S","T"," ","A","V","E","N","U","E">>},
     city : {<<>>, <<"L","I","V","E","R","M","O","R","E">>, <<"D","u","b","l","i","n">>},
     state : {<<>>, <<"C","A">>},
     zip : {<<>>, <<"9","4","5","5","0">>},
     storeNumber : {<<>>, <<"9","1","0">>, <<"9","1","1">>},
     phone : {<<>>, <<"9","0","5"," ","4","5","1"," ","6","3","0","7">>}]

AddStoreLocationToDatabase(storeLocation) ==
    /\ pc = "idle"
    /\ STORE_ADDRESS_DATABASE' = addStoreLocationToDatabase(STORE_ADDRESS_DATABASE, storeLocation)
    /\ UNCHANGED <<localStorage, now, saved, pc, arg, ret, tabs>>

\* detectStoreByAddress returns localResult on both of its paths
DetectStoreByAddress(extractedAddress) ==
    /\ pc = "idle"
    /\ arg' = [op |-> "detectStoreByAddress", extractedAddress |-> extractedAddress]
    /\ ret' = [op |-> "detectStoreByAddress",
               result |-> lookupStoreByAddress(extractedAddress, STORE_ADDRESS_DATABASE)]
    /\ pc' = "lookedUp"
    /\ UNCHANGED <<STORE_ADDRESS_DATABASE, localStorage, now, saved, tabs>>

NextAddress ==
    \/ \E storeLocation \in NewLocations : AddStoreLocationToDatabase(storeLocation)
    \/ \E extractedAddress \in ExtractedAddresses : DetectStoreByAddress(extractedAddress)
    \/ Return

SpecAddress == Init /\ [][NextAddress]_vars

\* the extracted address equals the location on street, city, state, postal
\* code and store number
SameAddress(extracted, known) ==
    /\ extracted.street # <<>> /\ extracted.street = known.address
    /\ extracted.city # <<>> /\ extracted.city = known.city
    /\ extracted.state # <<>> /\ extracted.state = known.state
    /\ extracted.zip # <<>> /\ extracted.zip = known.zip
    /\ extracted.storeNumber # <<>> /\ extracted.storeNumber = known.storeNumber

\* C20: the lookup returns null exactly when no location of any chain scores
\* above 0.6; otherwise it returns a location of the database with its own
\* score, and no location scores above it; an extracted address that equals a
\* location on street, city, state, postal code and store number is
\* identified as that location's chain with confidence above 0.9
C20_BestLocationAboveThreshold ==
    pc = "lookedUp" =>
        LET locations == AllLocations(STORE_ADDRESS_DATABASE)
            Holds(result, scores) ==
                /\ result.null <=> \A i \in DOMAIN scores : ~Above(scores[i], <<6, 10>>)
                /\ ~result.null =>
                       /\ \E i \in DOMAIN locations :
                              /\ result.storeDetails = locations[i]
                              /\ result.confidence = scores[i]
                       /\ result.storeName = result.storeDetails.storeName
                       /\ \A i \in DOMAIN scores : ~Above(scores[i], result.confidence)
                /\ \A i \in DOMAIN locations :
                       SameAddress(arg.extractedAddress, locations[i]) =>
                           /\ ~result.null
                           /\ result.storeName = locations[i].storeName
                           /\ Above(result.confidence, <<9, 10>>)
        IN  Holds(ret.result,
                  [i \in DOMAIN locations |->
                      calculateAddressConfidence(arg.extractedAddress, locations[i])])

\* a lookup of an address that equals one location on the five components
\* while another location scores above 0.6 as well
C20_Witness ==
    /\ pc = "lookedUp"
    /\ ~ret.result.null
    /\ LET locations == AllLocations(STORE_ADDRESS_DATABASE)
       IN  \E i, j \in DOMAIN locations :
               /\ i # j
               /\ SameAddress(arg.extractedAddress, locations[i])
               /\ Above(calculateAddressConfidence(arg.extractedAddress, locations[j]),
                        <<6, 10>>)


(***************************************************************************)
(* Further claims about the learning store.                                *)
(***************************************************************************)
\* the store names that differ from storeName in letter case only
CaseVariants(storeName) == { v \in Stores : toUpperCase(v) = toUpperCase(storeName) }

\* C21: the PatternTable is looked up without regard to the letter case of the
\* store name: the most recent correction saved for a text under a store name
\* is what getLearnedPatterns returns under every case variant of that name,
\* applyLearnedEnhancements returns the same list under every case variant,
\* and the corrections saved under case variants share the one table kept
\* under the upper-case name
C21_StoreNameCaseInsensitive ==
    /\ \A k \in DOMAIN getAllPatterns(localStorage) : k = toUpperCase(k)
    /\ \A i \in DOMAIN saved :
           IsLatestFor(i) =>
               \A v \in CaseVariants(saved[i].storeName) :
                   Lookup(getLearnedPatterns(localStorage, v), saved[i].originalName)
                       = Some(saved[i].newEnhancedName)
    /\ pc = "applied" =>
           \A v \in CaseVariants(arg.storeName) :
               applyLearnedEnhancements(localStorage, arg.items, v) = ret

\* C21 witness: two texts were corrected under two spellings of one store
\* name, and a call under the mixed-case spelling returned both corrections
C21_Witness ==
    /\ pc = "applied"
    /\ arg.storeName = Str.Safeway
    /\ \E i, j \in DOMAIN saved :
           /\ saved[i].storeName = Str.SAFEWAY
           /\ saved[j].storeName = Str.Safeway
           /\ saved[i].originalName # saved[j].originalName
           /\ \E k, l \in DOMAIN ret :
                  /\ ret[k].name = saved[i].originalName /\ ret[k].wasLearned
                  /\ ret[l].name = saved[j].originalName /\ ret[l].wasLearned


(***************************************************************************)
(* processImageWithOCR.  One call in progress is tabs[1]: where it stands, *)
(* the engines it has attempted, and what it returned or threw.  An        *)
(* engine's confidence is in hundredths.                                   *)
(***************************************************************************)
\* what an engine call gives: it throws an Error with a message, or returns
\* an OCRResult; boundingBoxes tells whether the result has that property
Threw(message) ==
    [threw |-> TRUE, message |-> message, text |-> <<>>, confidence |-> 0,
     boundingBoxes |-> FALSE]

Returned(text, confidence, boundingBoxes) ==
    [threw |-> FALSE, message |-> <<>>, text |-> text, confidence |-> confidence,
     boundingBoxes |-> boundingBoxes]

OcrMessage == [
    tooLarge |-> <<"I","m","a","g","e"," ","f","i","l","e"," ","i","s"," ","t","o","o"," ","l","a","r","g","e","."," ","P","l","e","a","s","e"," ","t","r","y"," ","a","g","a","i","n"," ","w","i","t","h"," ","a"," ","s","m","a","l","l","e","r"," ","p","h","o","t","o",".">>,
    invalidType |-> <<"I","n","v","a","l","i","d"," ","f","i","l","e"," ","t","y","p","e","."," ","P","l","e","a","s","e"," ","p","r","o","v","i","d","e"," ","a"," ","v","a","l","i","d"," ","i","m","a","g","e",".">>,
    noText |-> <<"N","o"," ","r","e","a","d","a","b","l","e"," ","t","e","x","t"," ","f","o","u","n","d"," ","i","n"," ","t","h","e"," ","i","m","a","g","e","."," ","P","l","e","a","s","e"," ","t","r","y"," ","a","g","a","i","n"," ","w","i","t","h"," ","a"," ","c","l","e","a","r","e","r"," ","p","h","o","t","o",".">>,
    lowConfidence |-> <<"T","e","x","t"," ","r","e","c","o","g","n","i","t","i","o","n"," ","c","o","n","f","i","d","e","n","c","e"," ","i","s"," ","t","o","o"," ","l","o","w","."," ","P","l","e","a","s","e"," ","t","r","y"," ","a","g","a","i","n"," ","w","i","t","h"," ","b","e","t","t","e","r"," ","l","i","g","h","t","i","n","g"," ","a","n","d"," ","f","o","c","u","s",".">>,
    notConfigured |-> <<"G","o","o","g","l","e"," ","V","i","s","i","o","n"," ","A","P","I"," ","i","s"," ","n","o","t"," ","p","r","o","p","e","r","l","y"," ","c","o","n","f","i","g","u","r","e","d","."," ","P","l","e","a","s","e"," ","c","h","e","c","k"," ","y","o","u","r"," ","s","e","t","t","i","n","g","s",".">>,
    typeError |-> <<"C","a","n","n","o","t"," ","r","e","a","d"," ","p","r","o","p","e","r","t","i","e","s"," ","o","f"," ","u","n","d","e","f","i","n","e","d"," ","(","r","e","a","d","i","n","g"," ","'","l","e","n","g","t","h","'",")">>,
    unclear |-> <<"C","o","u","l","d"," ","n","o","t"," ","r","e","a","d"," ","t","h","e"," ","t","e","x","t"," ","c","l","e","a","r","l","y","."," ","P","l","e","a","s","e"," ","e","n","s","u","r","e"," ","t","h","e"," ","r","e","c","e","i","p","t"," ","i","s"," ","w","e","l","l","-","l","i","t",","," ","f","l","a","t",","," ","a","n","d"," ","t","h","e"," ","t","e","x","t"," ","i","s"," ","c","l","e","a","r","l","y"," ","v","i","s","i","b","l","e",".">>,
    network |-> <<"N","e","t","w","o","r","k"," ","e","r","r","o","r"," ","d","u","r","i","n","g"," ","p","r","o","c","e","s","s","i","n","g","."," ","P","l","e","a","s","e"," ","c","h","e","c","k"," ","y","o","u","r"," ","i","n","t","e","r","n","e","t"," ","c","o","n","n","e","c","t","i","o","n"," ","a","n","d"," ","t","r","y"," ","a","g","a","i","n",".">>,
    initialize |-> <<"F","a","i","l","e","d"," ","t","o"," ","i","n","i","t","i","a","l","i","z","e"," ","t","e","x","t"," ","r","e","c","o","g","n","i","t","i","o","n","."," ","P","l","e","a","s","e"," ","r","e","f","r","e","s","h"," ","t","h","e"," ","p","a","g","e"," ","a","n","d"," ","t","r","y"," ","a","g","a","i","n",".">>,
    failed |-> <<"F","a","i","l","e","d"," ","t","o"," ","p","r","o","c","e","s","s"," ","t","h","e"," ","i","m","a","g","e","."," ","P","l","e","a","s","e"," ","t","r","y"," ","a","g","a","i","n"," ","w","i","t","h"," ","a"," ","c","l","e","a","r","e","r"," ","p","h","o","t","o"," ","i","n"," ","b","e","t","t","e","r"," ","l","i","g","h","t","i","n","g",".">>,
    insufficient |-> <<"T","e","s","s","e","r","a","c","t"," ","p","r","o","d","u","c","e","d"," ","i","n","s","u","f","f","i","c","i","e","n","t"," ","t","e","x","t"," ","o","u","t","p","u","t">>,
    tesseractFailed |-> <<"T","e","s","s","e","r","a","c","t"," ","O","C","R"," ","f","a","i","l","e","d",":"," ">>,
    unknown |-> <<"U","n","k","n","o","w","n"," ","e","r","r","o","r">> ]

\* processImageWithVision: the errors it throws, and the result it returns,
\* which has text, confidence, quality and debug and no boundingBoxes
OcrTexts == { <<>>, <<" ","a","b"," ">>, <<"M","I","L","K"," ","3",".","9","9">> }
OcrConfidences == { 29, 30, 95 }

VisionOutcomes ==
    { Threw(m) : m \in { <<"A","P","I"," ","k","e","y"," ","i","n","v","a","l","i","d"," ","o","r"," ","V","i","s","i","o","n"," ","A","P","I"," ","n","o","t"," ","e","n","a","b","l","e","d">>, <<"A","P","I"," ","q","u","o","t","a"," ","e","x","c","e","e","d","e","d">>, <<"O","C","R"," ","A","P","I"," ","e","r","r","o","r",":"," ","5","0","0">>, <<"N","o"," ","t","e","x","t"," ","d","e","t","e","c","t","e","d"," ","i","n"," ","i","m","a","g","e">>, <<"F","a","i","l","e","d"," ","t","o"," ","f","e","t","c","h">> } }
    \cup { Returned(text, c, FALSE) : text \in OcrTexts, c \in OcrConfidences }

\* what the Tesseract worker recognises, or a failure to load or run it
\* whose error has the given message
RecognizeOutcomes ==
    { Threw(m) : m \in { OcrMessage.unknown, <<"F","a","i","l","e","d"," ","t","o"," ","f","e","t","c","h">> } }
    \cup { Returned(text, c, FALSE) : text \in OcrTexts, c \in OcrConfidences }

\* processImageWithTesseract: the text is trimmed, a text under 2 characters
\* is an error, every error is rethrown as 'Tesseract OCR failed: ...', and
\* the result has boundingBoxes
processImageWithTesseract(recognized) ==
    IF recognized.threw
    THEN Threw(OcrMessage.tesseractFailed \o recognized.message)
    ELSE IF Len(trim(recognized.text)) < 2
    THEN Threw(OcrMessage.tesseractFailed \o OcrMessage.insufficient)
    ELSE Returned(trim(recognized.text), recognized.confidence, TRUE)

\* the image handed in: its size in bytes and whether its type starts
\* with 'image/'
OcrImages == [size : {500, 20000, 15000001}, isImage : BOOLEAN]

OcrStart(image) ==
    [pc |-> "validate", image |-> image, attempted |-> <<>>,
     vision |-> Threw(<<>>), result |-> Threw(<<>>)]

OcrThrows(call, message) == [call EXCEPT !.pc = "thrown", !.result = Threw(message)]

InitOCR ==
    /\ STORE_ADDRESS_DATABASE = InitialLocations
    /\ localStorage = EmptyStorage
    /\ now = 0
    /\ saved = <<>>
    /\ pc = "idle"
    /\ arg = NoCall
    /\ ret = NoCall
    /\ \E image \in OcrImages : tabs = << OcrStart(image) >>

\* the size and type checks, up to await isGoogleVisionAvailable()
OcrValidate ==
    /\ tabs[1].pc = "validate"
    /\ tabs' = [tabs EXCEPT ![1] =
                   IF tabs[1].image.size > 15000000
                   THEN OcrThrows(tabs[1], OcrMessage.tooLarge)
                   ELSE IF ~tabs[1].image.isImage
                   THEN OcrThrows(tabs[1], OcrMessage.invalidType)
                   ELSE [tabs[1] EXCEPT !.pc = "available"]]
    /\ UNCHANGED <<STORE_ADDRESS_DATABASE, localStorage, now, saved, pc, arg, ret>>

\* isGoogleVisionAvailable settles; up to the await of the engine chosen
OcrAvailable(googleVisionAvailable) ==
    /\ tabs[1].pc = "available"
    /\ tabs' = [tabs EXCEPT ![1].pc = IF googleVisionAvailable THEN "vision" ELSE "tesseract",
                            ![1].attempted =
                                <<IF googleVisionAvailable THEN "vision" ELSE "tesseract">>]
    /\ UNCHANGED <<STORE_ADDRESS_DATABASE, localStorage, now, saved, pc, arg, ret>>

\* the validation of an engine's result: the error thrown inside the try
\* block, or the result when every statement up to `return result` succeeds;
\* the success log reads result.boundingBoxes.length when checkBoxes is set
Validated(result, checkBoxes) ==
    IF result.threw THEN result
    ELSE IF result.text = <<>> \/ Len(trim(result.text)) < 5 THEN Threw(OcrMessage.noText)
    ELSE IF result.confidence < 30 THEN Threw(OcrMessage.lowConfidence)
    ELSE IF checkBoxes /\ ~result.boundingBoxes THEN Threw(OcrMessage.typeError)
    ELSE result

\* processImageWithVision settles: the try block and its catch, up to the
\* await of processImageWithTesseract
OcrVision(outcome) ==
    /\ tabs[1].pc = "vision"
    /\ LET Caught(checked) ==
               IF ~checked.threw
               THEN [tabs[1] EXCEPT !.pc = "returned", !.vision = outcome, !.result = checked]
               ELSE IF HasAny(checked.message, { <<"A","P","I"," ","k","e","y">>, <<"c","o","n","f","i","g","u","r","a","t","i","o","n">>, <<"c","r","e","d","e","n","t","i","a","l","s">> })
               THEN [OcrThrows(tabs[1], OcrMessage.notConfigured) EXCEPT !.vision = outcome]
               ELSE [tabs[1] EXCEPT !.pc = "tesseract", !.vision = outcome,
                                    !.attempted = Append(@, "tesseract")]
       IN  tabs' = [tabs EXCEPT ![1] = Caught(Validated(outcome, TRUE))]
    /\ UNCHANGED <<STORE_ADDRESS_DATABASE, localStorage, now, saved, pc, arg, ret>>

\* processImageWithTesseract settles: the second try block and its catch
OcrTesseract(recognized) ==
    /\ tabs[1].pc = "tesseract"
    /\ LET Caught(checked) ==
               IF ~checked.threw
               THEN [tabs[1] EXCEPT !.pc = "returned", !.result = checked]
               ELSE IF HasAny(checked.message, { <<"i","n","s","u","f","f","i","c","i","e","n","t"," ","t","e","x","t">>, <<"c","o","n","f","i","d","e","n","c","e">> })
               THEN OcrThrows(tabs[1], OcrMessage.unclear)
               ELSE IF HasAny(checked.message, { <<"n","e","t","w","o","r","k">>, <<"f","e","t","c","h">> })
               THEN OcrThrows(tabs[1], OcrMessage.network)
               ELSE IF HasAny(checked.message, { <<"l","o","a","d">> })
               THEN OcrThrows(tabs[1], OcrMessage.initialize)
               ELSE OcrThrows(tabs[1], OcrMessage.failed)
       IN  tabs' = [tabs EXCEPT ![1] =
                       Caught(Validated(processImageWithTesseract(recognized), FALSE))]
    /\ UNCHANGED <<STORE_ADDRESS_DATABASE, localStorage, now, saved, pc, arg, ret>>

NextOCR ==
    \/ OcrValidate
    \/ \E googleVisionAvailable \in BOOLEAN : OcrAvailable(googleVisionAvailable)
    \/ \E outcome \in VisionOutcomes : OcrVision(outcome)
    \/ \E recognized \in RecognizeOutcomes : OcrTesseract(recognized)

SpecOCR == InitOCR /\ [][NextOCR]_vars

\* the Vision attempt of the call gave at least 5 characters of text with
\* confidence 0.3 or more
VisionSucceeded(call) ==
    /\ call.pc \in {"tesseract", "returned", "thrown"}
    /\ call.attempted # <<>> /\ call.attempted[1] = "vision"
    /\ ~call.vision.threw
    /\ Len(trim(call.vision.text)) >= 5
    /\ call.vision.confidence >= 30

\* C22: when Vision is available and its attempt yields at least 5 characters
\* of text with confidence 0.3 or more, the call returns the Vision result and
\* Tesseract is not run; when Vision is unavailable or its attempt fails, the
\* call does not end without Tesseract having been attempted
C22_VisionFirstTesseractFallback ==
    LET call == tabs[1]
    IN  /\ VisionSucceeded(call) =>
               /\ call.pc = "returned"
               /\ call.result = call.vision
               /\ call.attempted = <<"vision">>
        /\ (call.pc \in {"returned", "thrown"} /\ call.attempted # <<>>
                /\ ~VisionSucceeded(call))
               => call.attempted[Len(call.attempted)] = "tesseract"


(***************************************************************************)
(* Calls of isOCRTextGarbled on texts of valid, garbled and other lines.   *)
(***************************************************************************)
MaxTextLines == 7

\* n copies of a line
RECURSIVE Copies(_, _)
Copies(line, n) == IF n = 0 THEN <<>> ELSE <<line>> \o Copies(line, n - 1)

\* receipt lines, lines of corruption, and lines that are neither
GarbleTexts ==
    { Join(Copies(<<"M","I","L","K"," ","3",".","9","9">>, n[1]) \o Copies(<<"W","R","C"," ","T","E","N","A">>, n[2]) \o Copies(<<"h","e","l","l","o"," ","t","h","e","r","e">>, n[3]), "\n") :
        n \in { m \in (0..MaxTextLines) \X (0..MaxTextLines) \X (0..MaxTextLines) :
                    m[1] + m[2] + m[3] <= MaxTextLines } }

GarbleCheck(text) ==
    /\ pc = "idle"
    /\ arg' = [op |-> "isOCRTextGarbled", text |-> text]
    /\ ret' = [op |-> "isOCRTextGarbled", result |-> isOCRTextGarbled(text)]
    /\ pc' = "garbleChecked"
    /\ UNCHANGED <<STORE_ADDRESS_DATABASE, localStorage, now, saved, tabs>>

NextGarbled ==
    \/ \E text \in GarbleTexts : GarbleCheck(text)
    \/ Return

SpecGarbled == Init /\ [][NextGarbled]_vars

PlainName(itemName) ==
    LET Plain(name) ==
            /\ \A n \in 1..Len(definiteNonFood) : ~TestAny(definiteNonFood[n][2], name)
            /\ ~TestAny(storeServices, name)
            /\ Len(name) >= 3
            /\ ~Test(<< <<"bol">>, <<"cls", "d", 1, -1>>, <<"cls", "az", 0, -1>>,
                        <<"cls", "d", 0, -1>>, <<"eol">> >>, name)
    IN  Plain(trim(toLowerCase(itemName)))

\* the running maximum of layers 3 and 4 for a plain name: the confidence of
\* the call without price and context, which layers 5, 6 and 7 leave alone
runningMax(itemName) == detectNonFood(itemName, NotNumber, NoContext).confidence

clamp01(x) == IF x < 0 THEN 0 ELSE IF x > 100 THEN 100 ELSE x

\* C24: for a plain name and a call with context and without price (so that
\* layers 6 and 7 change nothing), the confidence returned is
\* clamp01(running maximum of the earlier layers + context score)
C24_ContextScoreAdded ==
    (Detected /\ arg.context.given /\ ~arg.price.num /\ PlainName(arg.itemName))
        => ret.result.confidence
             = clamp01(runningMax(arg.itemName)
                       + contextScore(arg.context.allItems, arg.context.storeName,
                                      arg.context.itemIndex))


(***************************************************************************)
(* Further claims about fallbackParsing.                                   *)
(***************************************************************************)
\* C25: the patterns are tried in the order (a), (b), (c), (d) and the first
\* match settles the item.  On the first line of a text: when (a) does not
\* match it and the next line is a price alone, the item emitted for it has
\* the whole line as its name and the next line's price, whatever (c) and (d)
\* would read in the line.
C25_FirstMatchingPatternWins ==
    (Parsed /\ ret.path = "fallback") =>
        LET Holds(lines) ==
                (/\ Len(lines) >= 2
                 /\ ~IsNonItemLine(lines[1])
                 /\ ~Pattern1(lines[1]).ok
                 /\ IsPriceOnly(lines[2]))
                    => LET Emitted(items) ==
                               items # <<>> =>
                                   /\ ret.result.items # <<>>
                                   /\ ret.result.items[1] = items[1]
                       IN  Emitted(ItemOf(lines[1], parseFloatCents(trim(lines[2]))))
        IN  Holds(LinesOf(arg.ocrText))


(***************************************************************************)
(* Further claims about the address lookup, checked under SpecAddress.     *)
(***************************************************************************)
\* a component is compared when the extracted address and the location both
\* have it
Compared(extracted, known) ==
    [street |-> extracted.street # <<>> /\ known.address # <<>>,
     city |-> extracted.city # <<>> /\ known.city # <<>>,
     state |-> extracted.state # <<>> /\ known.state # <<>>,
     zip |-> extracted.zip # <<>> /\ known.zip # <<>>,
     storeNumber |-> extracted.storeNumber # <<>> /\ known.storeNumber # <<>>,
     phone |-> extracted.phone # <<>> /\ known.phone # <<>>]

\* the weights of the compared components
ComparedWeight(c) ==
    (IF c.street THEN 40 ELSE 0) + (IF c.city THEN 20 ELSE 0)
    + (IF c.state THEN 15 ELSE 0) + (IF c.zip THEN 15 ELSE 0)
    + (IF c.storeNumber THEN 10 ELSE 0) + (IF c.phone THEN 5 ELSE 0)

\* 40 x street similarity + 20 if city equal + 15 if state equal + 15 if
\* postal code equal + 10 if store number equal + 5 if phone equal, as the
\* pair << numerator, denominator >>; a component that is not compared
\* contributes 0
WeightedSum(extracted, known) ==
    LET Sum6(c, sim) ==
            << 40 * sim[1]
               + sim[2] * ( (IF c.city /\ normalizeString(extracted.city) = normalizeString(known.city) THEN 20 ELSE 0)
                          + (IF c.state /\ toUpperCase(extracted.state) = toUpperCase(known.state) THEN 15 ELSE 0)
                          + (IF c.zip /\ normalizeString(extracted.zip) = normalizeString(known.zip) THEN 15 ELSE 0)
                          + (IF c.storeNumber /\ extracted.storeNumber = known.storeNumber THEN 10 ELSE 0)
                          + (IF c.phone /\ digitsOf(extracted.phone) = digitsOf(known.phone) THEN 5 ELSE 0) ),
               sim[2] >>
        Street(c) ==
            Sum6(c, IF c.street
                    THEN calculateStringSimilarity(normalizeAddress(extracted.street),
                                                   normalizeAddress(known.address))
                    ELSE <<0, 1>>)
    IN  Street(Compared(extracted, known))

\* the weighted sum over a divisor
Over(sum, divisor) == <<sum[1], sum[2] * divisor>>

\* a = b for two confidences
Same(a, b) == a[1] * b[2] = b[1] * a[2]

\* C26 as stated: the confidence of the location a lookup returns is the
\* weighted sum divided by 100, also when components of the extracted
\* address are missing
C26_Original ==
    (pc = "lookedUp" /\ ~ret.result.null) =>
        Same(ret.result.confidence,
             Over(WeightedSum(arg.extractedAddress, ret.result.storeDetails), 100))

\* C26: the confidence is the weighted sum divided by the sum of the weights
\* of the components that the extracted address and the location both have,
\* and 0 when they have none in common: the returned location carries that
\* quotient, and a lookup returns null only when that quotient is at most 0.6
\* for every location
C26_ConfidenceOverComparedWeight ==
    pc = "lookedUp" =>
        LET Quotient(known) ==
                LET Q(divisor) ==
                        IF divisor = 0 THEN <<0, 1>>
                        ELSE Over(WeightedSum(arg.extractedAddress, known), divisor)
                IN  Q(ComparedWeight(Compared(arg.extractedAddress, known)))
            Holds(result, locations) ==
                IF result.null
                THEN \A i \in DOMAIN locations : ~Above(Quotient(locations[i]), <<6, 10>>)
                ELSE Same(result.confidence, Quotient(result.storeDetails))
        IN  Holds(ret.result, AllLocations(STORE_ADDRESS_DATABASE))

\* a lookup of an address without street and city that returns a location
C26_Witness ==
    /\ pc = "lookedUp"
    /\ ~ret.result.null
    /\ arg.extractedAddress.street = <<>>
    /\ arg.extractedAddress.city = <<>>
    /\ arg.extractedAddress.state # <<>>
    /\ Same(ret.result.confidence, <<1, 1>>)


\* C27: the PatternTable value of the most recent correction saved for a
\* store and text is the hide sentinel when the correction's kind is
\* 'item_hidden', and the corrected name when it is of another kind
C27_KindSetsValue ==
    \A i \in DOMAIN saved :
        IsLatestFor(i) =>
            EntryFor(saved[i].storeName, saved[i].originalName)
                = Some(IF saved[i].correctionType = "item_hidden"
                       THEN Str.HIDDEN
                       ELSE saved[i].newEnhancedName)


\* the values the type NonFoodDetectionResult declares for category
DeclaredCategories ==
    { "tax", "fee", "coupon", "discount", "payment", "service",
      "personal_care", "household", "pharmacy", "other" }

\* C30: the category of every result is one of the ten declared values,
\* whichever layer produced it, and it is 'other' whenever the confidence of
\* the result is below 0.6
C30_CategoryDeclared ==
    Detected =>
        /\ ret.result.category \in DeclaredCategories
        /\ ret.result.confidence < 60 => ret.result.category = "other"

(***************************************************************************)
(* generateUniversalGroceryReceipt step by step: the draw of numItems,     *)
(* every pass of the do-while loop that draws a catalogue item until an    *)
(* unused one comes, and the assembly of the text.  A value of             *)
(* Math.random() is k / Len(universalGroceryItems) for a k of Randoms, so  *)
(* that every number of items and every catalogue index can be drawn.      *)
(***************************************************************************)
Randoms == 0..(Len(universalGroceryItems) - 1)

\* Math.floor(random * n)
FloorOf(random, n) == (random * n) \div Len(universalGroceryItems)

\* a mutant of numItems: 15 to 30 items
numItems_upTo30(random) == FloorOf(random, 16) + 15

\* Math.floor(Math.random() * 15) + 15
numItems(random) == FloorOf(random, 15) + 15

\* (Math.random() * 6 + 1.5).toFixed(2), in cents
generatePrice(random) ==
    (2 * random * 600 + Len(universalGroceryItems)) \div (2 * Len(universalGroceryItems)) + 150

\* the passes of the loop in which two unused items are considered as the
\* draw; in the later passes one is
FreeDraws == 2

GenStart ==
    [op |-> "generateUniversalGroceryReceipt", pc |-> "start", numItems |-> 0,
     item |-> <<>>, usedItems |-> {}, picks |-> <<>>, prices |-> <<>>,
     store |-> 0]

InitGenerate ==
    /\ STORE_ADDRESS_DATABASE = InitialLocations
    /\ localStorage = EmptyStorage
    /\ now = 0
    /\ saved = <<>>
    /\ pc = "idle"
    /\ arg = NoCall
    /\ ret = NoCall
    /\ tabs = << GenStart >>

\* const numItems = Math.floor(Math.random() * 15) + 15
GenNumItems(random) ==
    /\ tabs[1].pc = "start"
    /\ tabs' = << [tabs[1] EXCEPT !.pc = "loop", !.numItems = numItems(random)] >>
    /\ UNCHANGED <<STORE_ADDRESS_DATABASE, localStorage, now, saved, pc, arg, ret>>

\* the for loop is left when i reaches numItems; i is the number of picks
GenLooping == tabs[1].pc = "loop" /\ Len(tabs[1].picks) < tabs[1].numItems

\* the draws considered in a pass, as a subset of Randoms: the used item
\* that was accepted first; of the unused ones the first and the last of the
\* catalogue in the free passes and the first of the catalogue later
GenConsidered(call) ==
    LET Edges(unused) ==
            { k \in unused : \/ \A j \in unused : k <= j
                             \/ Len(call.picks) < FreeDraws /\ \A j \in unused : j <= k }
    IN  Edges({ k \in Randoms : universalGroceryItems[k + 1] \notin call.usedItems })
            \cup (IF call.picks = <<>> THEN {} ELSE { call.picks[1] - 1 })

\* one pass of the do-while loop whose draw is a used item: the loop goes on
GenDrawUsed(random) ==
    /\ GenLooping
    /\ universalGroceryItems[random + 1] \in tabs[1].usedItems
    /\ tabs' = << [tabs[1] EXCEPT !.item = universalGroceryItems[random + 1]] >>
    /\ UNCHANGED <<STORE_ADDRESS_DATABASE, localStorage, now, saved, pc, arg, ret>>

\* one pass whose draw is an unused item: the do-while loop is left, the item
\* is added to usedItems and pushed with its price
GenDrawUnused(random, priceRandom) ==
    /\ GenLooping
    /\ universalGroceryItems[random + 1] \notin tabs[1].usedItems
    /\ tabs' = << [tabs[1] EXCEPT
                      !.item = universalGroceryItems[random + 1],
                      !.usedItems = @ \cup { universalGroceryItems[random + 1] },
                      !.picks = Append(@, random + 1),
                      !.prices = Append(@, generatePrice(priceRandom))] >>
    /\ UNCHANGED <<STORE_ADDRESS_DATABASE, localStorage, now, saved, pc, arg, ret>>

\* an unused item is drawn; the first pass considers two prices, the later
\* ones one
GenDrawsUnused ==
    \E random \in GenConsidered(tabs[1]) :
        \E priceRandom \in (IF tabs[1].picks = <<>> THEN {0, 28} ELSE {14}) :
            GenDrawUnused(random, priceRandom)

\* the draw of the store name; the call returns
GenReturn(random) ==
    /\ tabs[1].pc = "loop"
    /\ Len(tabs[1].picks) >= tabs[1].numItems
    /\ tabs' = << [tabs[1] EXCEPT !.pc = "done", !.store = FloorOf(random, 6) + 1] >>
    /\ UNCHANGED <<STORE_ADDRESS_DATABASE, localStorage, now, saved, pc, arg, ret>>

NextGenerate ==
    \/ \E random \in Randoms : GenNumItems(random)
    \/ \E random \in GenConsidered(tabs[1]) : GenDrawUsed(random)
    \/ GenDrawsUnused
    \/ \E random \in {0, 28} : GenReturn(random)

SpecGenerate == InitGenerate /\ [][NextGenerate]_vars

\* The steps of the call run one after the other without waiting for
\* anything.  Every draw of Math.random() falls on an unused item with
\* positive probability as long as there is one, so a loop that draws for
\* ever without ever drawing an unused item has probability 0.
SpecGenerateFair ==
    /\ SpecGenerate
    /\ WF_vars(\E random \in Randoms : GenNumItems(random))
    /\ WF_vars(GenDrawsUnused)
    /\ WF_vars(\E random \in {0, 28} : GenReturn(random))

\* the text a call that is done returns: the totals and the text are
\* computed from the items, prices and store name drawn
GenResult(call) ==
    generateUniversalGroceryReceipt([numItems |-> call.numItems, picks |-> call.picks,
                                     prices |-> call.prices, store |-> call.store])

\* the item lines of the returned text: they follow the five header lines
GenItemNames(call) ==
    LET Names30(lines) == [k \in 1..call.numItems |-> SubSeq(lines[5 + k], 1, 30)]
    IN  Names30(Split(GenResult(call), "\n"))

\* what holds at every step of a call
GenSafe ==
    LET Holds(call) ==
            /\ call.pc # "start" => call.numItems <= Len(universalGroceryItems)
            /\ GenLooping =>
                   \E k \in DOMAIN universalGroceryItems :
                       universalGroceryItems[k] \notin call.usedItems
            /\ call.pc = "done" =>
                   LET Distinct(names) ==
                           /\ Len(names) = call.numItems
                           /\ \A i, j \in DOMAIN names : i # j => names[i] # names[j]
                   IN  Distinct(GenItemNames(call))
    IN  Holds(tabs[1])

MarkedHidden(items, storeName) ==
    LET Marked(result) == { index \in DOMAIN result : result[index].shouldHide }
    IN  Marked(applyLearnedEnhancements(localStorage, items, storeName))

\* C29: for the item list and store of a getItemsToHide call, every index
\* that applyLearnedEnhancements marks shouldHide is in the returned set, and
\* the two are equal whenever no item's enhancedName is a key whose
\* PatternTable value is the hide sentinel
C29_HideSetCoversMarked ==
    pc = "hideListed" =>
        LET Holds(marked) ==
                /\ marked \subseteq ret
                /\ (\A index \in DOMAIN arg.items :
                        ~(/\ arg.items[index].enhancedName.def
                          /\ EntryFor(arg.storeName, arg.items[index].enhancedName.s)
                                 = Some(Str.HIDDEN)))
                       => marked = ret
        IN  Holds(MarkedHidden(arg.items, arg.storeName))

=============================================================================
